---- MODULE Spec2Model ----
(***************************************************************************)
(* A model of chemtrails' ThreadingHub (src/chemtrails/hub/hub.py): the    *)
(* bounded queue, the mediator thread (process_queue), the worker pool     *)
(* (process_object), the caller threads (send_object, enable, disable)     *)
(* and shutdown().                                                         *)
(***************************************************************************)
EXTENDS Integers, Sequences, FiniteSets, TLC

\* Bounds of the model.
NumObjects == 3
max_size == 2
num_workers == 2
MaxShutdowns == 2

Objects == 1..NumObjects

VARIABLES
    event_closed,      \* AbstractHub.event_closed (threading.Event)
    event_disabled,    \* AbstractHub.event_disabled (threading.Event)
    queue,             \* ThreadingHub.queue: the items waiting in it
    unfinished_tasks,  \* queue.Queue's count of put items not yet task_done
    mediator_pc,       \* where the mediator thread is in process_queue
    mediator_obj,      \* the obj the mediator holds between get and submit
    work_queue,        \* the worker pool's pending tasks (process_object, obj)
    running,           \* objects whose process_object a worker is executing
    pool_shutdown,     \* worker_pool.shutdown() has been called
    pool_releases,     \* how many times worker_pool.shutdown() was called
    global_shutdown,   \* the interpreter is exiting: the pool refuses new tasks
    runs,              \* runs[o]: how many times process_object(o) was started
    saved,             \* objects whose save_to returned normally
    log_dropped,       \* objects named in a LOG.warning of a drop
    log_error,         \* objects named in process_object's LOG.error
    send_pc,           \* send_pc[o]: where the send_object(o) call is
    shutdown_pc,       \* where the thread calling shutdown() is
    shutdown_returned, \* how many shutdown() calls have returned
    admitted,          \* objects that put_nowait placed on the queue
    admitted_open,     \* those placed while event_closed was clear
    completed          \* how many process_object runs have finished

hub == <<event_closed, event_disabled>>
qvars == <<queue, unfinished_tasks>>
mvars == <<mediator_pc, mediator_obj>>
pvars == <<work_queue, running, pool_shutdown, pool_releases, global_shutdown>>
ovars == <<runs, saved, log_error, completed>>
svars == <<shutdown_pc, shutdown_returned>>
avars == <<admitted, admitted_open>>
vars == <<hub, qvars, mvars, pvars, ovars, svars, log_dropped, send_pc, avars>>

\* Base.name: the identity of the object that the log lines print.
name(msg) == msg

\* AbstractHub.is_working
is_working == ~(event_closed \/ event_disabled)

Init ==
    /\ event_closed = FALSE
    /\ event_disabled \in BOOLEAN
    /\ queue = <<>>
    /\ unfinished_tasks = 0
    /\ mediator_pc = "get"
    /\ mediator_obj = 0
    /\ work_queue = <<>>
    /\ running = {}
    /\ pool_shutdown = FALSE
    /\ pool_releases = 0
    /\ global_shutdown = FALSE
    /\ runs = [o \in Objects |-> 0]
    /\ saved = {}
    /\ log_dropped = {}
    /\ log_error = {}
    /\ send_pc = [o \in Objects |-> "idle"]
    /\ shutdown_pc = "idle"
    /\ shutdown_returned = 0
    /\ admitted = {}
    /\ admitted_open = {}
    /\ completed = 0

----------------------------------------------------------------------------
\* AbstractHub.enable / AbstractHub.disable

\* A variant of enable that also clears the closed flag.
enable_reopens ==
    /\ event_disabled' = FALSE
    /\ event_closed' = FALSE
    /\ UNCHANGED <<qvars, mvars, pvars, ovars, svars, log_dropped, send_pc,
                   avars>>

\* A variant of disable that also empties the queue.
disable_purges ==
    /\ event_disabled' = TRUE
    /\ queue' = <<>>
    /\ UNCHANGED <<event_closed, unfinished_tasks, mvars, pvars, ovars, svars,
                   log_dropped, send_pc, avars>>

enable ==
    /\ event_disabled' = FALSE
    /\ UNCHANGED <<event_closed, qvars, mvars, pvars, ovars, svars,
                   log_dropped, send_pc, avars>>

disable ==
    /\ event_disabled' = TRUE
    /\ UNCHANGED <<event_closed, qvars, mvars, pvars, ovars, svars,
                   log_dropped, send_pc, avars>>

----------------------------------------------------------------------------
\* ThreadingHub.send_object

\* A variant of put_nowait for a queue without a capacity.
put_nowait_unbounded(q, msg) == [exc |-> "none", q |-> Append(q, msg)]

\* queue.Queue.put_nowait on a queue built with Queue(max_size)
put_nowait(q, msg) ==
    IF Len(q) >= max_size
    THEN [exc |-> "Full", q |-> q]
    ELSE [exc |-> "none", q |-> Append(q, msg)]

\* A variant of the except clause that catches nothing.
Caught_nothing(exc) == FALSE

\* the except clause around put_nowait
Caught(exc) == exc = "Full"

\* if self.event_closed.is_set(): warn and return
SendCheck(o) ==
    /\ send_pc[o] = "idle"
    /\ IF o = 1 THEN TRUE ELSE send_pc[o - 1] # "idle"
    /\ IF event_closed
       THEN /\ log_dropped' = log_dropped \cup {name(o)}
            /\ send_pc' = [send_pc EXCEPT ![o] = "returned"]
       ELSE /\ send_pc' = [send_pc EXCEPT ![o] = "put"]
            /\ UNCHANGED log_dropped
    /\ UNCHANGED <<hub, qvars, mvars, pvars, ovars, svars, avars>>

\* A variant of the second half of send_object that uses the blocking
\* queue.put(msg): it waits for a free slot.
SendPut_blocking(o) ==
    /\ send_pc[o] = "put"
    /\ Len(queue) < max_size
    /\ queue' = Append(queue, o)
    /\ unfinished_tasks' = unfinished_tasks + 1
    /\ admitted' = admitted \cup {o}
    /\ admitted_open' = IF event_closed THEN admitted_open
                        ELSE admitted_open \cup {o}
    /\ send_pc' = [send_pc EXCEPT ![o] = "returned"]
    /\ UNCHANGED <<hub, mvars, pvars, ovars, svars, log_dropped>>

\* try: self.queue.put_nowait(msg) / except queue.Full: warn
SendPut(o) ==
    /\ send_pc[o] = "put"
    /\ LET r == put_nowait(queue, o) IN
       /\ queue' = r.q
       /\ IF r.exc = "none"
          THEN /\ unfinished_tasks' = unfinished_tasks + 1
               /\ admitted' = admitted \cup {o}
               /\ admitted_open' = IF event_closed THEN admitted_open
                                   ELSE admitted_open \cup {o}
               /\ send_pc' = [send_pc EXCEPT ![o] = "returned"]
               /\ UNCHANGED log_dropped
          ELSE /\ UNCHANGED <<unfinished_tasks, avars>>
               /\ IF Caught(r.exc)
                  THEN /\ log_dropped' = log_dropped \cup {name(o)}
                       /\ send_pc' = [send_pc EXCEPT ![o] = "returned"]
                  ELSE /\ send_pc' = [send_pc EXCEPT ![o] = "raised"]
                       /\ UNCHANGED log_dropped
    /\ UNCHANGED <<hub, mvars, pvars, ovars, svars>>

----------------------------------------------------------------------------
\* ThreadingHub.process_queue (the mediator thread)

\* A variant of the mediator's get that pauses while the hub is disabled.
MediatorGet_paused ==
    /\ ~event_disabled
    /\ mediator_pc = "get"
    /\ queue # <<>>
    /\ mediator_obj' = Head(queue)
    /\ queue' = Tail(queue)
    /\ mediator_pc' = "submit"
    /\ UNCHANGED <<hub, unfinished_tasks, pvars, ovars, svars, log_dropped,
                   send_pc, avars>>

\* A variant of the mediator's get that leaves the item in the queue.
MediatorGet_peek ==
    /\ mediator_pc = "get"
    /\ queue # <<>>
    /\ mediator_obj' = Head(queue)
    /\ mediator_pc' = "submit"
    /\ UNCHANGED <<hub, qvars, pvars, ovars, svars, log_dropped, send_pc,
                   avars>>

\* obj = self.queue.get(timeout=0.1), an item being there
MediatorGet ==
    /\ mediator_pc = "get"
    /\ queue # <<>>
    /\ mediator_obj' = Head(queue)
    /\ queue' = Tail(queue)
    /\ mediator_pc' = "submit"
    /\ UNCHANGED <<hub, unfinished_tasks, pvars, ovars, svars, log_dropped,
                   send_pc, avars>>

\* self.queue.get(timeout=0.1) raises queue.Empty
MediatorEmpty ==
    /\ mediator_pc = "get"
    /\ queue = <<>>
    /\ mediator_pc' = "wait"
    /\ UNCHANGED <<hub, qvars, mediator_obj, pvars, ovars, svars, log_dropped,
                   send_pc, avars>>

\* A variant of the wait step that returns whether or not the hub is closed.
MediatorWait_leaves ==
    /\ mediator_pc = "wait"
    /\ mediator_pc' = "drain"
    /\ UNCHANGED <<hub, qvars, mediator_obj, pvars, ovars, svars, log_dropped,
                   send_pc, avars>>

\* if not self.event_closed.wait(0.01): continue / else return
MediatorWait ==
    /\ mediator_pc = "wait"
    /\ mediator_pc' = IF event_closed THEN "drain" ELSE "get"
    /\ UNCHANGED <<hub, qvars, mediator_obj, pvars, ovars, svars, log_dropped,
                   send_pc, avars>>

\* ThreadPoolExecutor.submit raises RuntimeError once the pool is shut down
\* or the interpreter is exiting
SubmitRaises == pool_shutdown \/ global_shutdown

\* A variant of the submit step that leaves the loop after a failed
\* submission instead of going on to the next object.
MediatorSubmit_stops ==
    /\ mediator_pc = "submit"
    /\ IF SubmitRaises
       THEN /\ log_dropped' = log_dropped \cup {name(mediator_obj)}
            /\ event_closed' = TRUE
            /\ unfinished_tasks' = unfinished_tasks - 1
            /\ mediator_pc' = "drain"
            /\ UNCHANGED work_queue
       ELSE /\ work_queue' = Append(work_queue, mediator_obj)
            /\ mediator_pc' = "get"
            /\ UNCHANGED <<log_dropped, event_closed, unfinished_tasks>>
    /\ mediator_obj' = 0
    /\ UNCHANGED <<event_disabled, queue, running, pool_shutdown,
                   pool_releases, global_shutdown, ovars, svars, send_pc,
                   avars>>

\* self.worker_pool.submit(self.process_object, obj) / except RuntimeError
MediatorSubmit ==
    /\ mediator_pc = "submit"
    /\ IF SubmitRaises
       THEN /\ log_dropped' = log_dropped \cup {name(mediator_obj)}
            /\ event_closed' = TRUE
            /\ unfinished_tasks' = unfinished_tasks - 1
            /\ UNCHANGED work_queue
       ELSE /\ work_queue' = Append(work_queue, mediator_obj)
            /\ UNCHANGED <<log_dropped, event_closed, unfinished_tasks>>
    /\ mediator_obj' = 0
    /\ mediator_pc' = "get"
    /\ UNCHANGED <<event_disabled, queue, running, pool_shutdown,
                   pool_releases, global_shutdown, ovars, svars, send_pc,
                   avars>>

\* drain(), the ExitStack callback run when process_queue returns
MediatorDrain ==
    /\ mediator_pc = "drain"
    /\ IF queue = <<>>
       THEN UNCHANGED qvars
       ELSE /\ queue' = Tail(queue)
            /\ unfinished_tasks' = unfinished_tasks - 1
    /\ mediator_pc' = "done"
    /\ UNCHANGED <<hub, mediator_obj, pvars, ovars, svars, log_dropped,
                   send_pc, avars>>

----------------------------------------------------------------------------
\* The worker pool and ThreadingHub.process_object

\* a worker thread of the pool takes the next task and enters process_object
WorkerStart ==
    /\ work_queue # <<>>
    /\ Cardinality(running) < num_workers
    /\ running' = running \cup {Head(work_queue)}
    /\ runs' = [runs EXCEPT ![Head(work_queue)] = @ + 1]
    /\ work_queue' = Tail(work_queue)
    /\ UNCHANGED <<hub, qvars, mvars, pool_shutdown, pool_releases,
                   global_shutdown, saved, log_error, completed, svars,
                   log_dropped, send_pc, avars>>

\* A variant of process_object without the except and finally clauses: a
\* failure leaves the task with nothing logged and nothing marked done.
process_object_uncaught(o, ok) ==
    /\ o \in running
    /\ IF ok
       THEN /\ saved' = saved \cup {o}
            /\ unfinished_tasks' = unfinished_tasks - 1
            /\ completed' = completed + 1
       ELSE UNCHANGED <<saved, unfinished_tasks, completed>>
    /\ running' = running \ {o}
    /\ UNCHANGED <<hub, queue, mvars, work_queue, pool_shutdown,
                   pool_releases, global_shutdown, runs, svars, log_dropped,
                   send_pc, avars, log_error>>

\* process_object: save_to succeeds or raises (caught and logged); finally
\* self.queue.task_done()
process_object(o, ok) ==
    /\ o \in running
    /\ IF ok
       THEN saved' = saved \cup {o} /\ UNCHANGED log_error
       ELSE log_error' = log_error \cup {name(o)} /\ UNCHANGED saved
    /\ unfinished_tasks' = unfinished_tasks - 1
    /\ running' = running \ {o}
    /\ completed' = completed + 1
    /\ UNCHANGED <<hub, queue, mvars, work_queue, pool_shutdown,
                   pool_releases, global_shutdown, runs, svars, log_dropped,
                   send_pc, avars>>

WorkerFinish == \E o \in Objects, ok \in BOOLEAN : process_object(o, ok)

\* the interpreter starts to exit: concurrent.futures refuses new tasks
InterpreterExit ==
    /\ ~global_shutdown
    /\ global_shutdown' = TRUE
    /\ UNCHANGED <<hub, qvars, mvars, work_queue, running, pool_shutdown,
                   pool_releases, ovars, svars, log_dropped, send_pc,
                   avars>>

----------------------------------------------------------------------------
\* ThreadingHub.shutdown, called up to MaxShutdowns times in succession

\* super().shutdown(): self.event_closed.set()
ShutdownCall ==
    /\ shutdown_pc = "idle"
    /\ shutdown_returned < MaxShutdowns
    /\ event_closed' = TRUE
    /\ shutdown_pc' = "join_mediator"
    /\ UNCHANGED <<event_disabled, qvars, mvars, pvars, ovars,
                   shutdown_returned, log_dropped, send_pc, avars>>

\* self.mediator.join()
ShutdownJoinMediator ==
    /\ shutdown_pc = "join_mediator"
    /\ mediator_pc = "done"
    /\ shutdown_pc' = "join_queue"
    /\ UNCHANGED <<hub, qvars, mvars, pvars, ovars, shutdown_returned,
                   log_dropped, send_pc, avars>>

\* self.queue.join()
ShutdownJoinQueue ==
    /\ shutdown_pc = "join_queue"
    /\ unfinished_tasks = 0
    /\ shutdown_pc' = "pool"
    /\ UNCHANGED <<hub, qvars, mvars, pvars, ovars, shutdown_returned,
                   log_dropped, send_pc, avars>>

\* self.worker_pool.shutdown(): no new tasks from here on
ShutdownPool ==
    /\ shutdown_pc = "pool"
    /\ pool_shutdown' = TRUE
    /\ pool_releases' = pool_releases + 1
    /\ shutdown_pc' = "pool_wait"
    /\ UNCHANGED <<hub, qvars, mvars, work_queue, running, global_shutdown,
                   ovars, shutdown_returned, log_dropped, send_pc,
                   avars>>

\* worker_pool.shutdown() waits for the pool's pending tasks, then returns
ShutdownReturn ==
    /\ shutdown_pc = "pool_wait"
    /\ work_queue = <<>>
    /\ running = {}
    /\ shutdown_pc' = "idle"
    /\ shutdown_returned' = shutdown_returned + 1
    /\ UNCHANGED <<hub, qvars, mvars, pvars, ovars, log_dropped, send_pc,
                   avars>>

----------------------------------------------------------------------------
Mediator ==
    MediatorGet \/ MediatorEmpty \/ MediatorWait \/ MediatorSubmit
        \/ MediatorDrain

Worker == WorkerStart \/ WorkerFinish

Shutdown ==
    ShutdownCall \/ ShutdownJoinMediator \/ ShutdownJoinQueue \/ ShutdownPool
        \/ ShutdownReturn

\* the steps of threads already inside the hub's code
HubStep ==
    \/ Mediator
    \/ Worker
    \/ ShutdownJoinMediator \/ ShutdownJoinQueue \/ ShutdownPool
    \/ ShutdownReturn
    \/ \E o \in Objects : SendPut(o)

\* the steps of the hub's own variables
Next ==
    \/ enable
    \/ disable
    \/ \E o \in Objects : SendCheck(o)
    \/ \E o \in Objects : SendPut(o)
    \/ Mediator
    \/ Worker
    \/ InterpreterExit
    \/ Shutdown

----------------------------------------------------------------------------
\* The callers of the hub: AbstractHub.trace (a traced region, with
\* Trace.__enter__ and Trace.__exit__) and AbstractHub.take_snapshot.

NumCalls == 1

Calls == 1..NumCalls

VARIABLES
    call_pc,      \* call_pc[c]: where call c (a region or a take_snapshot) is
    call_kind,    \* "trace" or "snapshot" once the call has started
    call_exc,     \* the exception that propagates out of call c ("none": none)
    obj_of,       \* the object call c passed to send_object (0: none)
    body_ran,     \* the region's body was entered
    body_raised,  \* the region's body raised
    span_finish,  \* span.pop() of the region's Trace has recorded finish
    captured,     \* how many Snapshots the call captured
    entry_working,    \* what is_working() returned when the call began
    disabled_at_send  \* event_disabled when the call reached send_object

tvars == <<call_pc, call_kind, call_exc, obj_of, body_ran, body_raised,
           span_finish, captured, entry_working, disabled_at_send>>

InitCalls ==
    /\ call_pc = [c \in Calls |-> "idle"]
    /\ call_kind = [c \in Calls |-> "none"]
    /\ call_exc = [c \in Calls |-> "none"]
    /\ obj_of = [c \in Calls |-> 0]
    /\ body_ran = [c \in Calls |-> FALSE]
    /\ body_raised = [c \in Calls |-> FALSE]
    /\ span_finish = [c \in Calls |-> FALSE]
    /\ captured = [c \in Calls |-> 0]
    /\ entry_working = [c \in Calls |-> FALSE]
    /\ disabled_at_send = [c \in Calls |-> FALSE]

\* AbstractHub.can_accept_object
can_accept_object(msg) == TRUE

\* what the generator of trace() does when the hub is not working:
\* "return iter(({},))" ends the generator before its first yield, and
\* contextlib's __enter__ then raises RuntimeError("generator didn't yield")
NotWorkingEntry == [pc |-> "done", exc |-> "RuntimeError", body |-> FALSE]

\* entering the region: is_working(), Trace(...), Trace.__enter__ (capture
\* of old_snapshot, span.push()), yield
TraceEnter(c, snap_ok) ==
    /\ call_pc[c] = "idle"
    /\ IF c = 1 THEN TRUE ELSE call_pc[c - 1] # "idle"
    /\ call_kind' = [call_kind EXCEPT ![c] = "trace"]
    /\ entry_working' = [entry_working EXCEPT ![c] = is_working]
    /\ IF ~is_working
       THEN /\ call_pc' = [call_pc EXCEPT ![c] = NotWorkingEntry.pc]
            /\ call_exc' = [call_exc EXCEPT ![c] = NotWorkingEntry.exc]
            /\ body_ran' = [body_ran EXCEPT ![c] = NotWorkingEntry.body]
            /\ UNCHANGED captured
       ELSE IF snap_ok
       THEN /\ call_pc' = [call_pc EXCEPT ![c] = "body"]
            /\ body_ran' = [body_ran EXCEPT ![c] = TRUE]
            /\ captured' = [captured EXCEPT ![c] = @ + 1]
            /\ UNCHANGED call_exc
       ELSE /\ call_pc' = [call_pc EXCEPT ![c] = "send"]
            /\ call_exc' = [call_exc EXCEPT ![c] = "inspector"]
            /\ UNCHANGED <<body_ran, captured>>
    /\ UNCHANGED <<obj_of, body_raised, span_finish, disabled_at_send>>
    /\ UNCHANGED vars

\* the exception that leaves Trace.__exit__ and the finally clause of trace()
ExitException(raised, pop_ok, snap_ok) ==
    IF ~pop_ok THEN "StackError"
    ELSE IF ~snap_ok THEN "inspector"
    ELSE IF raised THEN "body"
    ELSE "none"

\* the body ends (returning or raising); Trace.__exit__: span.pop(), capture
\* of new_snapshot; then the finally clause of trace() is reached
TraceExit(c, raised, pop_ok, snap_ok) ==
    /\ call_pc[c] = "body"
    /\ body_raised' = [body_raised EXCEPT ![c] = raised]
    /\ span_finish' = [span_finish EXCEPT ![c] = TRUE]
    /\ captured' = [captured EXCEPT ![c] =
                        IF pop_ok /\ snap_ok THEN @ + 1 ELSE @]
    /\ call_exc' = [call_exc EXCEPT ![c] =
                        ExitException(raised, pop_ok, snap_ok)]
    /\ call_pc' = [call_pc EXCEPT ![c] = "send"]
    /\ UNCHANGED <<call_kind, obj_of, body_ran, entry_working,
                   disabled_at_send>>
    /\ UNCHANGED vars

\* A variant of take_snapshot that does not ask is_working().
take_snapshot_unchecked(c, snap_ok) ==
    /\ call_pc[c] = "idle"
    /\ IF c = 1 THEN TRUE ELSE call_pc[c - 1] # "idle"
    /\ call_kind' = [call_kind EXCEPT ![c] = "snapshot"]
    /\ entry_working' = [entry_working EXCEPT ![c] = is_working]
    /\ IF snap_ok
       THEN /\ call_pc' = [call_pc EXCEPT ![c] = "send"]
            /\ captured' = [captured EXCEPT ![c] = @ + 1]
            /\ UNCHANGED call_exc
       ELSE /\ call_pc' = [call_pc EXCEPT ![c] = "done"]
            /\ call_exc' = [call_exc EXCEPT ![c] = "inspector"]
            /\ UNCHANGED captured
    /\ UNCHANGED <<obj_of, body_ran, body_raised, span_finish,
                   disabled_at_send>>
    /\ UNCHANGED vars

\* AbstractHub.take_snapshot up to the capture of the Snapshot
take_snapshot(c, snap_ok) ==
    /\ call_pc[c] = "idle"
    /\ IF c = 1 THEN TRUE ELSE call_pc[c - 1] # "idle"
    /\ call_kind' = [call_kind EXCEPT ![c] = "snapshot"]
    /\ entry_working' = [entry_working EXCEPT ![c] = is_working]
    /\ IF ~is_working
       THEN /\ call_pc' = [call_pc EXCEPT ![c] = "done"]
            /\ UNCHANGED <<call_exc, captured>>
       ELSE IF snap_ok
       THEN /\ call_pc' = [call_pc EXCEPT ![c] = "send"]
            /\ captured' = [captured EXCEPT ![c] = @ + 1]
            /\ UNCHANGED call_exc
       ELSE /\ call_pc' = [call_pc EXCEPT ![c] = "done"]
            /\ call_exc' = [call_exc EXCEPT ![c] = "inspector"]
            /\ UNCHANGED captured
    /\ UNCHANGED <<obj_of, body_ran, body_raised, span_finish,
                   disabled_at_send>>
    /\ UNCHANGED vars

\* if self.can_accept_object(obj): self.send_object(obj), up to the closed
\* check of send_object; the object gets the next unused identity
CallSend(c) ==
    /\ call_pc[c] = "send"
    /\ IF can_accept_object(c)
       THEN /\ call_pc' = [call_pc EXCEPT ![c] = "sent"]
            /\ disabled_at_send' = [disabled_at_send EXCEPT ![c] =
                                        event_disabled]
            /\ \E o \in Objects :
                /\ SendCheck(o)
                /\ obj_of' = [obj_of EXCEPT ![c] = o]
       ELSE /\ call_pc' = [call_pc EXCEPT ![c] = "done"]
            /\ UNCHANGED <<obj_of, disabled_at_send, vars>>
    /\ UNCHANGED <<call_kind, call_exc, body_ran, body_raised, span_finish,
                   captured, entry_working>>

\* the call has come back to its caller
CallReturned(c) ==
    \/ call_pc[c] = "done"
    \/ call_pc[c] = "sent" /\ send_pc[obj_of[c]] \in {"returned", "raised"}

\* how many times call c called send_object
sends(c) == IF obj_of[c] = 0 THEN 0 ELSE 1

----------------------------------------------------------------------------
\* Span (src/chemtrails/trails/traces.py): push, pop, elapsed_ns and the
\* stack that get_stack() finds for the running context.

NumSpans == 3
MaxClock == 3

Spans == 1..NumSpans
\* two logical contexts: the one the program starts in, and one it creates
Contexts == {"main", "other"}

VARIABLES
    now,         \* the last value time.monotonic_ns() returned
    start,       \* Span.start (0: not started)
    finish,      \* Span.finish (0: in progress)
    children,    \* Span.children
    ctx_state,   \* "absent", or how the context came to be: "thread", "task"
    ctx_list,    \* whose list the context's ContextVar holds ("unset": none)
    lists,       \* lists[l]: the list object created by context l
    ctx_of,      \* the context that pushed the span ("none": not pushed)
    pop_result,  \* how the span's pop() ended ("none": not called)
    own,         \* own[k]: the spans context k pushed and has not popped
    parent_own,  \* the innermost open span of its own context at push time
    pop_top,     \* the top of the stack that pop() found (0: nothing)
    pop_in_order \* pop() was called on the context's innermost open span

spvars == <<now, start, finish, children, ctx_state, ctx_list, lists, ctx_of,
            pop_result, own, parent_own, pop_top, pop_in_order>>

InitSpans ==
    /\ now = 1
    /\ start = [s \in Spans |-> 0]
    /\ finish = [s \in Spans |-> 0]
    /\ children = [s \in Spans |-> <<>>]
    /\ ctx_state = [k \in Contexts |-> IF k = "main" THEN "thread" ELSE "absent"]
    /\ ctx_list = [k \in Contexts |-> "unset"]
    /\ lists = [k \in Contexts |-> <<>>]
    /\ ctx_of = [s \in Spans |-> "none"]
    /\ pop_result = [s \in Spans |-> "none"]
    /\ own = [k \in Contexts |-> <<>>]
    /\ parent_own = [s \in Spans |-> 0]
    /\ pop_top = [s \in Spans |-> 0]
    /\ pop_in_order = [s \in Spans |-> FALSE]

Last(q) == q[Len(q)]
Front(q) == SubSeq(q, 1, Len(q) - 1)

\* time.monotonic_ns(): a value not below the last one
Clock == {t \in {now, now + 1} : t <= MaxClock}

\* A variant of elapsed_ns without the check of start.
elapsed_ns_unchecked(s) == (IF finish[s] # 0 THEN finish[s] ELSE now) - start[s]

\* Span.elapsed_ns
elapsed_ns(s) ==
    IF start[s] = 0 THEN 0
    ELSE (IF finish[s] # 0 THEN finish[s] ELSE now) - start[s]

\* Span.is_in_progress
is_in_progress(s) == finish[s] = 0

\* Span.get_stack().get() in context k: the list, or LookupError
get_stack(k) ==
    IF ctx_list[k] = "unset" THEN [exc |-> "LookupError", stack |-> <<>>]
    ELSE [exc |-> "none", stack |-> lists[ctx_list[k]]]

\* a span no push and no pop has touched; spans are taken in turn
Fresh(s) ==
    /\ start[s] = 0
    /\ finish[s] = 0
    /\ IF s = 1 THEN TRUE ELSE start[s - 1] # 0 \/ finish[s - 1] # 0

\* A variant of push that attaches the span to the bottom of the stack.
PushParent_root(stack) == stack[1]

\* the span that push() makes the parent of the pushed span
PushParent(stack) == Last(stack)

\* A new context: a thread (its own thread-local ContextVar, never set) or a
\* task run in a copy of its parent's context (the ContextVar of the thread,
\* holding the parent's list object if the parent has set one)
Spawn(p, k, kind) ==
    /\ ctx_state[p] # "absent"
    /\ ctx_state[k] = "absent"
    /\ ctx_state' = [ctx_state EXCEPT ![k] = kind]
    /\ ctx_list' = [ctx_list EXCEPT ![k] =
                        IF kind = "task" THEN ctx_list[p] ELSE "unset"]
    /\ UNCHANGED <<now, start, finish, children, lists, ctx_of, pop_result,
                   own, parent_own, pop_top, pop_in_order>>

\* Span.push in context k, the clock then reading t
push(s, k, t) ==
    /\ ctx_state[k] # "absent"
    /\ Fresh(s)
    /\ LET got == get_stack(k)
           l == IF got.exc = "LookupError" THEN k ELSE ctx_list[k]
       IN
       /\ ctx_list' = [ctx_list EXCEPT ![k] = l]
       /\ children' = IF got.stack # <<>>
                      THEN [children EXCEPT ![PushParent(got.stack)] =
                                Append(@, s)]
                      ELSE children
       /\ lists' = [lists EXCEPT ![l] = Append(got.stack, s)]
    /\ start' = [start EXCEPT ![s] = t]
    /\ now' = t
    /\ ctx_of' = [ctx_of EXCEPT ![s] = k]
    /\ parent_own' = [parent_own EXCEPT ![s] =
                          IF own[k] = <<>> THEN 0 ELSE Last(own[k])]
    /\ own' = [own EXCEPT ![k] = Append(@, s)]
    /\ UNCHANGED <<finish, ctx_state, pop_result, pop_top, pop_in_order>>

\* A variant of pop that looks at the top of the stack before it removes it
\* and leaves the stack alone on a mismatch.
pop_checks_first(s, k, t) ==
    /\ ctx_state[k] # "absent"
    /\ finish[s] = 0
    /\ IF start[s] = 0 THEN Fresh(s) ELSE ctx_of[s] = k
    /\ finish' = [finish EXCEPT ![s] = t]
    /\ now' = t
    /\ LET got == get_stack(k) IN
       IF got.exc = "LookupError"
       THEN /\ pop_result' = [pop_result EXCEPT ![s] = "LookupError"]
            /\ UNCHANGED lists
       ELSE IF got.stack = <<>> \/ Last(got.stack) # s
       THEN /\ pop_result' = [pop_result EXCEPT ![s] = "RuntimeError"]
            /\ UNCHANGED lists
       ELSE /\ lists' = [lists EXCEPT ![ctx_list[k]] = Front(got.stack)]
            /\ pop_result' = [pop_result EXCEPT ![s] = "ok"]
    /\ pop_top' = [pop_top EXCEPT ![s] =
                      IF get_stack(k).stack = <<>> THEN 0
                      ELSE Last(get_stack(k).stack)]
    /\ pop_in_order' = [pop_in_order EXCEPT ![s] =
                           own[k] # <<>> /\ Last(own[k]) = s]
    /\ own' = [own EXCEPT ![k] =
                  SelectSeq(@, LAMBDA x : x # s)]
    /\ UNCHANGED <<start, children, ctx_state, ctx_list, ctx_of, parent_own>>

\* Span.pop in context k, the clock reading t at its first line; a span
\* that was pushed is popped by the context that pushed it
pop(s, k, t) ==
    /\ ctx_state[k] # "absent"
    /\ finish[s] = 0
    /\ IF start[s] = 0 THEN Fresh(s) ELSE ctx_of[s] = k
    /\ finish' = [finish EXCEPT ![s] = t]
    /\ now' = t
    /\ LET got == get_stack(k) IN
       IF got.exc = "LookupError"
       THEN /\ pop_result' = [pop_result EXCEPT ![s] = "LookupError"]
            /\ UNCHANGED lists
       ELSE IF got.stack = <<>>
       THEN /\ pop_result' = [pop_result EXCEPT ![s] = "RuntimeError"]
            /\ UNCHANGED lists
       ELSE /\ lists' = [lists EXCEPT ![ctx_list[k]] = Front(got.stack)]
            /\ pop_result' = [pop_result EXCEPT ![s] =
                                  IF Last(got.stack) = s THEN "ok"
                                  ELSE "RuntimeError"]
    /\ pop_top' = [pop_top EXCEPT ![s] =
                      IF get_stack(k).stack = <<>> THEN 0
                      ELSE Last(get_stack(k).stack)]
    /\ pop_in_order' = [pop_in_order EXCEPT ![s] =
                           own[k] # <<>> /\ Last(own[k]) = s]
    /\ own' = [own EXCEPT ![k] =
                  SelectSeq(@, LAMBDA x : x # s)]
    /\ UNCHANGED <<start, children, ctx_state, ctx_list, ctx_of, parent_own>>

----------------------------------------------------------------------------
\* Trace (src/chemtrails/trails/traces.py) as an object: its fields through
\* construction, __enter__ and __exit__. Captures, push and pop are stamped
\* with their place in the order of events.

NumTraces == 2

Traces == 1..NumTraces

VARIABLES
    trace_obj,  \* trace_obj[t]: the fields of Trace t and where its region is
    tick        \* how many captures, pushes and pops have happened

rvars == <<trace_obj, tick>>

\* a Trace not constructed yet; old_snapshot and new_snapshot 0 stand for
\* None, start and finish 0 are the defaults of Span
NoTrace ==
    [pc |-> "none", with_memory_snapshot |-> FALSE, old_snapshot |-> 0,
     new_snapshot |-> 0, start |-> 0, finish |-> 0, inspector_calls |-> 0]

InitRegions ==
    /\ trace_obj = [t \in Traces |-> NoTrace]
    /\ tick = 0

\* Trace.is_completed
is_completed(t) ==
    trace_obj[t].old_snapshot # 0 /\ trace_obj[t].new_snapshot # 0

\* Trace(...): the dataclass constructor
Trace(t, flag) ==
    /\ trace_obj[t].pc = "none"
    /\ IF t = 1 THEN TRUE ELSE trace_obj[t - 1].pc # "none"
    /\ trace_obj' = [trace_obj EXCEPT ![t] =
                         [NoTrace EXCEPT !.pc = "new",
                                         !.with_memory_snapshot = flag]]
    /\ UNCHANGED tick

\* Trace.__enter__: Snapshot.create (the flag only selects the tracemalloc
\* part of the Snapshot), then span.push()
Trace__enter__(t, snap_ok) ==
    /\ trace_obj[t].pc = "new"
    /\ IF snap_ok
       THEN /\ trace_obj' = [trace_obj EXCEPT
                                ![t].inspector_calls = @ + 1,
                                ![t].old_snapshot = tick + 1,
                                ![t].start = tick + 2,
                                ![t].pc = "body"]
            /\ tick' = tick + 2
       ELSE /\ trace_obj' = [trace_obj EXCEPT
                                ![t].inspector_calls = @ + 1,
                                ![t].pc = "enter_failed"]
            /\ tick' = tick + 1

\* A variant of __exit__ that captures new_snapshot before span.pop().
Trace__exit___capture_first(t, pop_ok, snap_ok) ==
    /\ trace_obj[t].pc = "body"
    /\ trace_obj' = [trace_obj EXCEPT
                        ![t].inspector_calls = @ + 1,
                        ![t].new_snapshot = tick + 1,
                        ![t].finish = tick + 2,
                        ![t].pc = "exited"]
    /\ tick' = tick + 2

\* Trace.__exit__: span.pop() (which records finish before its checks), then
\* Snapshot.create
Trace__exit__(t, pop_ok, snap_ok) ==
    /\ trace_obj[t].pc = "body"
    /\ IF ~pop_ok
       THEN /\ trace_obj' = [trace_obj EXCEPT
                                ![t].finish = tick + 1,
                                ![t].pc = "exit_failed"]
            /\ tick' = tick + 1
       ELSE IF ~snap_ok
       THEN /\ trace_obj' = [trace_obj EXCEPT
                                ![t].finish = tick + 1,
                                ![t].inspector_calls = @ + 1,
                                ![t].pc = "exit_failed"]
            /\ tick' = tick + 2
       ELSE /\ trace_obj' = [trace_obj EXCEPT
                                ![t].finish = tick + 1,
                                ![t].inspector_calls = @ + 1,
                                ![t].new_snapshot = tick + 2,
                                ![t].pc = "exited"]
            /\ tick' = tick + 2

----------------------------------------------------------------------------
\* The archive container: the codec of src/chemtrails/trails/archive.py
\* (save_object_to, load_object_from) and the methods of Base that a worker
\* calls (src/chemtrails/trails/base.py: save_to, load_from).

VERSION == 1
MaxVersion == 2

\* trails.VERSION, the name under which Base reads the codec's VERSION
trails_VERSION == VERSION

Versions == 0..MaxVersion
Classes == {"Base", "Trace", "Snapshot"}

\* the entries of a container
FILE_VERSION == "version.txt"
FILE_METADATA == "metadata.json"
FILE_DATA == "data.pickle"

\* the objects that are written: a Trace or a Snapshot with the fields of Base
ArchObjects ==
    [class : {"Trace", "Snapshot"}, hub_id : {"h"}, oid : {"a", "b"},
     created_at : {"t"}]

NoObject == [class |-> "none", hub_id |-> "", oid |-> "", created_at |-> ""]

\* utils.get_class_fqn: the module-qualified name of a class
get_class_fqn(cls) ==
    CASE cls = "Trace" -> "chemtrails.trails.traces.Trace"
      [] cls = "Snapshot" -> "chemtrails.trails.snapshots.Snapshot"
      [] OTHER -> "chemtrails.trails.base.Base"

\* cls.__name__
class_name(cls) == cls

\* isinstance(obj, cls): Trace and Snapshot derive from Base
isinstance(obj, cls) == obj.class = cls \/ (cls = "Base" /\ obj.class # "none")

\* obj.class_metadata: Trace adds its trace_id, Base has none
class_metadata(obj) == IF obj.class = "Trace" THEN {"trace_id"} ELSE {}

\* f"{VERSION}\n".encode("latin1"): the digits of the number and a newline
version_marker(v) == [digits |-> TRUE, number |-> v, newline |-> TRUE]

\* int(zp.read(FILE_VERSION).rstrip().decode("latin1")): rstrip drops the
\* newline if there is one, int raises ValueError for text that is no number
read_version(marker) ==
    IF marker.digits
    THEN [exc |-> "none", value |-> marker.number]
    ELSE [exc |-> "ValueError", value |-> 0]

\* pickle.dump(obj, protocol=pickle.HIGHEST_PROTOCOL)
pickle_dump(obj) == [format |-> "pickle", value |-> obj]

\* pickle.load: the object, or UnpicklingError for bytes that are no pickle
pickle_load(data) ==
    IF data.format = "pickle"
    THEN [exc |-> "none", obj |-> data.value]
    ELSE [exc |-> "UnpicklingError", obj |-> NoObject]

\* writing through pyzstd.ZstdFile(mode="wb")
zstd_write(data) ==
    IF data.format = "pickle"
    THEN [format |-> "zstd", value |-> data.value]
    ELSE [format |-> "garbage", value |-> NoObject]

\* reading through pyzstd.ZstdFile(mode="rb"): fails on bytes that are no
\* zstd frame
zstd_read(data) ==
    IF data.format = "zstd"
    THEN [exc |-> "none", data |-> [format |-> "pickle", value |-> data.value]]
    ELSE [exc |-> "ZstdError", data |-> data]

VARIABLES
    arch_obj,  \* the object at hand
    file,      \* the container last written or made up
    result     \* what the last load did

arvars == <<arch_obj, file, result>>

\* corrupt names the entry whose stored bytes do not match its checksum
NoFile ==
    [present |-> FALSE, corrupt |-> "none",
     version |-> [digits |-> FALSE, number |-> 0, newline |-> FALSE],
     metadata |-> [id_key |-> "", id |-> "", oid |-> "", created_at |-> "",
                   class_ |-> ""],
     class_metadata |-> {},
     data |-> [format |-> "garbage", value |-> NoObject]]

NoResult ==
    [loader |-> "none", cls |-> "none", exc |-> "none", obj |-> NoObject,
     payload_read |-> FALSE]

InitArchiveIdle ==
    /\ arch_obj = NoObject
    /\ file = NoFile
    /\ result = NoResult

InitArchive ==
    /\ arch_obj \in ArchObjects
    /\ file = NoFile
    /\ result = NoResult

\* A variant of save_object_to that declares the short class name.
save_object_to_short_name(obj) ==
    [present |-> TRUE, corrupt |-> "none",
     version |-> version_marker(VERSION),
     metadata |-> [id_key |-> "hub_id", id |-> obj.hub_id, oid |-> obj.oid,
                   created_at |-> obj.created_at,
                   class_ |-> class_name(obj.class)],
     class_metadata |-> class_metadata(obj),
     data |-> zstd_write(pickle_dump(obj))]

\* archive.save_object_to: the container it writes
save_object_to(obj) ==
    [present |-> TRUE, corrupt |-> "none",
     version |-> version_marker(VERSION),
     metadata |-> [id_key |-> "hub_id", id |-> obj.hub_id, oid |-> obj.oid,
                   created_at |-> obj.created_at,
                   class_ |-> get_class_fqn(obj.class)],
     class_metadata |-> class_metadata(obj),
     data |-> zstd_write(pickle_dump(obj))]

\* Base.save_to: the container it writes
save_to(obj) ==
    [present |-> TRUE, corrupt |-> "none",
     version |-> version_marker(trails_VERSION),
     metadata |-> [id_key |-> "execution_id", id |-> obj.hub_id, oid |-> obj.oid,
                   created_at |-> obj.created_at,
                   class_ |-> class_name(obj.class)],
     class_metadata |-> class_metadata(obj),
     data |-> pickle_dump(obj)]

Failed(loader, cls, exc, read) ==
    [loader |-> loader, cls |-> cls, exc |-> exc, obj |-> NoObject,
     payload_read |-> read]

\* A variant of load_object_from without the version check.
load_object_from_any_version(cls, f) ==
    LET v == read_version(f.version)
        z == zstd_read(f.data)
        u == pickle_load(z.data)
    IN
    IF f.corrupt # "none"
    THEN Failed("codec", cls, "ArchiveBadFileError", FALSE)
    ELSE IF get_class_fqn(cls) # f.metadata.class_
    THEN Failed("codec", cls, "ArchiveClassMismatchError", FALSE)
    ELSE IF z.exc # "none" THEN Failed("codec", cls, z.exc, TRUE)
    ELSE IF u.exc # "none" THEN Failed("codec", cls, u.exc, TRUE)
    ELSE IF ~isinstance(u.obj, cls)
    THEN Failed("codec", cls, "ArchiveWrongObjectError", TRUE)
    ELSE [loader |-> "codec", cls |-> cls, exc |-> "none", obj |-> u.obj,
          payload_read |-> TRUE]

\* A variant of load_object_from that checks the class only by isinstance,
\* after decoding.
load_object_from_decode_first(cls, f) ==
    LET v == read_version(f.version)
        z == zstd_read(f.data)
        u == pickle_load(z.data)
    IN
    IF f.corrupt # "none"
    THEN Failed("codec", cls, "ArchiveBadFileError", FALSE)
    ELSE IF v.exc # "none" THEN Failed("codec", cls, v.exc, FALSE)
    ELSE IF v.value # VERSION
    THEN Failed("codec", cls, "ArchiveUnsupportedVersionError", FALSE)
    ELSE IF z.exc # "none" THEN Failed("codec", cls, z.exc, TRUE)
    ELSE IF u.exc # "none" THEN Failed("codec", cls, u.exc, TRUE)
    ELSE IF ~isinstance(u.obj, cls)
    THEN Failed("codec", cls, "ArchiveWrongObjectError", TRUE)
    ELSE [loader |-> "codec", cls |-> cls, exc |-> "none", obj |-> u.obj,
          payload_read |-> TRUE]

\* A variant of load_object_from that compares the declared class before the
\* version.
load_object_from_class_first(cls, f) ==
    LET v == read_version(f.version)
        z == zstd_read(f.data)
        u == pickle_load(z.data)
    IN
    IF f.corrupt # "none"
    THEN Failed("codec", cls, "ArchiveBadFileError", FALSE)
    ELSE IF get_class_fqn(cls) # f.metadata.class_
    THEN Failed("codec", cls, "ArchiveClassMismatchError", FALSE)
    ELSE IF v.exc # "none" THEN Failed("codec", cls, v.exc, FALSE)
    ELSE IF v.value # VERSION
    THEN Failed("codec", cls, "ArchiveUnsupportedVersionError", FALSE)
    ELSE IF z.exc # "none" THEN Failed("codec", cls, z.exc, TRUE)
    ELSE IF u.exc # "none" THEN Failed("codec", cls, u.exc, TRUE)
    ELSE IF ~isinstance(u.obj, cls)
    THEN Failed("codec", cls, "ArchiveWrongObjectError", TRUE)
    ELSE [loader |-> "codec", cls |-> cls, exc |-> "none", obj |-> u.obj,
          payload_read |-> TRUE]

\* archive.load_object_from: testzip, version, declared class, payload,
\* isinstance
load_object_from(cls, f) ==
    LET v == read_version(f.version)
        z == zstd_read(f.data)
        u == pickle_load(z.data)
    IN
    IF f.corrupt # "none"
    THEN Failed("codec", cls, "ArchiveBadFileError", FALSE)
    ELSE IF v.exc # "none" THEN Failed("codec", cls, v.exc, FALSE)
    ELSE IF v.value # VERSION
    THEN Failed("codec", cls, "ArchiveUnsupportedVersionError", FALSE)
    ELSE IF get_class_fqn(cls) # f.metadata.class_
    THEN Failed("codec", cls, "ArchiveClassMismatchError", FALSE)
    ELSE IF z.exc # "none" THEN Failed("codec", cls, z.exc, TRUE)
    ELSE IF u.exc # "none" THEN Failed("codec", cls, u.exc, TRUE)
    ELSE IF ~isinstance(u.obj, cls)
    THEN Failed("codec", cls, "ArchiveWrongObjectError", TRUE)
    ELSE [loader |-> "codec", cls |-> cls, exc |-> "none", obj |-> u.obj,
          payload_read |-> TRUE]

\* Base.load_from: version, declared class, payload.  There is no testzip:
\* zipfile raises BadZipFile when the entry being read is the corrupt one.
load_from(cls, f) ==
    LET v == read_version(f.version)
        u == pickle_load(f.data)
    IN
    IF f.corrupt = FILE_VERSION THEN Failed("base", cls, "BadZipFile", FALSE)
    ELSE IF v.exc # "none" THEN Failed("base", cls, v.exc, FALSE)
    ELSE IF v.value # trails_VERSION
    THEN Failed("base", cls, "UnsupportedVersionError", FALSE)
    ELSE IF f.corrupt = FILE_METADATA
    THEN Failed("base", cls, "BadZipFile", FALSE)
    ELSE IF class_name(cls) # f.metadata.class_
    THEN Failed("base", cls, "ClassMismatchError", FALSE)
    ELSE IF f.corrupt = FILE_DATA THEN Failed("base", cls, "BadZipFile", TRUE)
    ELSE IF u.exc # "none" THEN Failed("base", cls, u.exc, TRUE)
    ELSE [loader |-> "base", cls |-> cls, exc |-> "none", obj |-> u.obj,
          payload_read |-> TRUE]

\* the object at hand is written by the codec
WriteCodec ==
    /\ file' = save_object_to(arch_obj)
    /\ result' = NoResult
    /\ UNCHANGED arch_obj

\* the object at hand is written as a worker writes it (process_object:
\* msg.save_to(fp))
WriteWorker ==
    /\ file' = save_to(arch_obj)
    /\ result' = NoResult
    /\ UNCHANGED arch_obj

\* a container from somewhere else is put where none was: any version
\* marker, declared class and payload, intact or with a corrupt entry
Forge(marker, declared, data, bad) ==
    /\ ~file.present
    /\ file' = [present |-> TRUE, corrupt |-> bad,
                version |-> marker,
                metadata |-> [id_key |-> "hub_id", id |-> arch_obj.hub_id,
                              oid |-> arch_obj.oid,
                              created_at |-> arch_obj.created_at,
                              class_ |-> declared],
                class_metadata |-> {},
                data |-> data]
    /\ result' = NoResult
    /\ UNCHANGED arch_obj

\* the version markers a container can carry: a number with or without the
\* newline, or text that is no number
Markers ==
    [digits : {TRUE}, number : Versions, newline : BOOLEAN]
        \cup [digits : {FALSE}, number : {0}, newline : {TRUE}]

DeclaredNames ==
    {get_class_fqn(c) : c \in Classes} \cup {class_name(c) : c \in Classes}

\* the payloads a container can carry: the pickle of an object with the oid of
\* the one at hand, of either class, compressed or not, or other bytes
Payloads ==
    LET objs == {x \in ArchObjects : x.oid = arch_obj.oid} IN
    {pickle_dump(x) : x \in objs}
        \cup {zstd_write(pickle_dump(x)) : x \in objs}
        \cup {[format |-> "garbage", value |-> NoObject]}

CorruptEntries == {"none", FILE_VERSION, FILE_METADATA, FILE_DATA}

\* the container is loaded by the codec as class cls
LoadCodec(cls) ==
    /\ file.present
    /\ result = NoResult
    /\ result' = load_object_from(cls, file)
    /\ UNCHANGED <<arch_obj, file>>

\* the container is loaded by Base.load_from called on class cls
LoadBase(cls) ==
    /\ file.present
    /\ result = NoResult
    /\ result' = load_from(cls, file)
    /\ UNCHANGED <<arch_obj, file>>

----------------------------------------------------------------------------
\* Destination names: ThreadingHub.get_object_storage.  A name is the sequence
\* of its characters.

OidLen == 2
MaxIdLen == 1

HexDigits == {"0", "f"}
IdChars == {"a", "_", "/"}

\* Base.oid: _generate_id() gives hexlify of 16 bytes, a hex string of one
\* fixed length
Oids == [1..OidLen -> HexDigits]

\* a trace id is any text
TraceIds == UNION {[1..k -> IdChars] : k \in 0..MaxIdLen}

\* the objects a worker can be handed: a Trace, a Snapshot, or a Base of
\* another kind
Messages ==
    [kind : {"Trace"}, trace_id : TraceIds, oid : Oids]
        \cup [kind : {"Snapshot", "Base"}, trace_id : {<<>>}, oid : Oids]

\* str(self.oid) of the hub
hub_oid == <<"0", "-", "f">>

\* utils.get_filesystem_safe_name: a path separator becomes an underscore
get_filesystem_safe_name(id) ==
    [i \in 1..Len(id) |-> IF id[i] = "/" THEN "_" ELSE id[i]]

\* A variant of get_object_storage that leaves the oid out of the name.
get_object_storage_no_oid(msg) ==
    CASE msg.kind = "Trace" ->
            [exc |-> "none",
             name |-> hub_oid \o <<"_">>
                        \o get_filesystem_safe_name(msg.trace_id)
                        \o <<".", "t", "r", "a", "c", "e">>]
      [] msg.kind = "Snapshot" ->
            [exc |-> "none",
             name |-> hub_oid
                        \o <<".", "s", "n", "a", "p", "s", "h", "o", "t">>]
      [] OTHER -> [exc |-> "RuntimeError", name |-> <<>>]

\* ThreadingHub.get_object_storage: the name of the file it opens, or the
\* RuntimeError for an object that is neither a Trace nor a Snapshot
get_object_storage(msg) ==
    CASE msg.kind = "Trace" ->
            [exc |-> "none",
             name |-> hub_oid \o <<"_">>
                        \o get_filesystem_safe_name(msg.trace_id)
                        \o <<"_">> \o msg.oid
                        \o <<".", "t", "r", "a", "c", "e">>]
      [] msg.kind = "Snapshot" ->
            [exc |-> "none",
             name |-> hub_oid \o <<"_">> \o msg.oid
                        \o <<".", "s", "n", "a", "p", "s", "h", "o", "t">>]
      [] OTHER -> [exc |-> "RuntimeError", name |-> <<>>]

Workers == {1, 2}

VARIABLES
    msg,   \* the object each of two workers was handed
    dest   \* what get_object_storage gave each worker: "closed" before the
           \* call, else its result

stvars == <<msg, dest>>

NoMessage == [kind |-> "none", trace_id |-> <<>>, oid |-> <<>>]

NotOpened == [exc |-> "none", name |-> <<>>]

InitStorageIdle ==
    /\ msg = [w \in Workers |-> NoMessage]
    /\ dest = [w \in Workers |-> NotOpened]

InitStorage ==
    /\ msg \in [Workers -> Messages]
    /\ dest = [w \in Workers |-> NotOpened]

\* worker w enters process_object and opens the destination of its object
OpenStorage(w) ==
    /\ dest[w] = NotOpened
    /\ dest' = [dest EXCEPT ![w] = get_object_storage(msg[w])]
    /\ UNCHANGED msg

----------------------------------------------------------------------------
\* What a failed submission found: the objects whose submission failed and
\* the objects that were in the queue at that moment.

VARIABLES
    submit_failed,     \* objects whose worker_pool.submit raised
    queue_at_failure   \* objects that were in the queue when one did

fvars == <<submit_failed, queue_at_failure>>

InitFailures ==
    /\ submit_failed = {}
    /\ queue_at_failure = {}

\* process_queue's submit step, with its failure recorded
ObserveSubmit ==
    IF mediator_pc = "submit" /\ SubmitRaises
    THEN /\ submit_failed' = submit_failed \cup {mediator_obj}
         /\ queue_at_failure' =
                queue_at_failure \cup {queue[i] : i \in 1..Len(queue)}
    ELSE UNCHANGED fvars

----------------------------------------------------------------------------
\* Construction of a hub (ThreadingHub.__init__) and the process-wide default
\* hub of src/chemtrails/__init__.py (Hub, configure_default_hub).

MaxConfigures == 2

\* what the path given as output_dir is
Paths == {"writable_dir", "readonly_dir", "file", "missing"}

\* pathlib.Path.is_dir
is_dir(path) == path \in {"writable_dir", "readonly_dir"}

\* the admission limits and worker counts a caller can give: the default
\* (sys.maxsize, None) or a number of its own
Limits == {"sys.maxsize", "given"}
WorkerCounts == {"None", "given"}

NoHub ==
    [state |-> "none", enabled |-> FALSE, output_dir |-> "", max_size |-> "",
     num_workers |-> "", mediator |-> "none", worker_pool |-> "none"]

\* ThreadingHub.__init__: AbstractHub.__init__, the is_dir check, then the
\* queue, the worker pool and the mediator thread
ThreadingHub(output_dir, enabled, limit, workers) ==
    IF ~is_dir(output_dir)
    THEN [exc |-> "ValueError", hub |-> NoHub]
    ELSE [exc |-> "none",
          hub |-> [state |-> "open", enabled |-> enabled,
                   output_dir |-> output_dir, max_size |-> limit,
                   num_workers |-> workers, mediator |-> "started",
                   worker_pool |-> "created"]]

\* ThreadingHub.shutdown on a hub record: closed, the mediator joined, the
\* pool shut down
shutdown(h) ==
    [h EXCEPT !.state = "closed", !.mediator = "joined",
              !.worker_pool = "shut down"]

VARIABLES
    Hub,         \* the module-level default hub
    previous,    \* the hub that was the default when configure began
    cfg_pc,      \* configure_default_hub: "idle", "construct", "returned",
                 \* "raised"
    cfg_args,    \* the arguments of the call
    configures,  \* how many calls of configure_default_hub have ended
    built        \* the outcome of a ThreadingHub(...) call of the program

dvars == <<Hub, previous, cfg_pc, cfg_args, configures, built>>

NoArgs == [output_dir |-> "", in_progress_limit |-> "", num_workers |-> ""]

NotBuilt == [exc |-> "none", hub |-> NoHub]

\* Hub = ThreadingHub(pathlib.Path(""), False): the working directory
InitDefault ==
    /\ Hub = ThreadingHub("writable_dir", FALSE, "sys.maxsize", "None").hub
    /\ previous = NoHub
    /\ cfg_pc = "idle"
    /\ cfg_args = NoArgs
    /\ configures = 0
    /\ built = NotBuilt

\* the program constructs a hub of its own
Construct(output_dir, enabled, limit, workers) ==
    /\ built = NotBuilt
    /\ built' = ThreadingHub(output_dir, enabled, limit, workers)
    /\ UNCHANGED <<Hub, previous, cfg_pc, cfg_args, configures>>

\* configure_default_hub up to the end of Hub.shutdown()
ConfigureShutdown(output_dir, limit, workers) ==
    /\ cfg_pc \in {"idle", "returned", "raised"}
    /\ configures < MaxConfigures
    /\ cfg_args' = [output_dir |-> output_dir, in_progress_limit |-> limit,
                    num_workers |-> workers]
    /\ Hub' = shutdown(Hub)
    /\ previous' = shutdown(Hub)
    /\ cfg_pc' = "construct"
    /\ UNCHANGED <<configures, built>>

\* Hub = ThreadingHub(output_dir, True, ...): the assignment happens only if
\* the constructor returns
ConfigureConstruct ==
    /\ cfg_pc = "construct"
    /\ LET new == ThreadingHub(cfg_args.output_dir, TRUE,
                               cfg_args.in_progress_limit,
                               cfg_args.num_workers)
       IN IF new.exc = "none"
          THEN Hub' = new.hub /\ cfg_pc' = "returned"
          ELSE UNCHANGED Hub /\ cfg_pc' = "raised"
    /\ configures' = configures + 1
    /\ UNCHANGED <<previous, cfg_args, built>>

----------------------------------------------------------------------------
\* The Scheduler of src/chemtrails/hub/scheduler.py, as take_snapshot_each
\* uses it: one threading.Timer at a time, whose thread calls run().

NumSchedulers == 2

Schedulers == 1..NumSchedulers

VARIABLES
    enabled,     \* Scheduler.enabled; FALSE also before start()
    timer,       \* the threading.Timer in Scheduler.timer: "none" (no
                 \* scheduler yet), "created" (never started), "waiting"
                 \* (started, the period running), "running" (fired, its
                 \* thread is in run()), "finished", "cancelled"
    run_pc,      \* the thread in run(): "idle", "func", "lock"
    invocations, \* how many times func has been called
    warned       \* how many of these calls raised and were logged

scvars == <<enabled, timer, run_pc, invocations, warned>>

InitSchedulers ==
    /\ enabled = [s \in Schedulers |-> FALSE]
    /\ timer = [s \in Schedulers |-> "none"]
    /\ run_pc = [s \in Schedulers |-> "idle"]
    /\ invocations = [s \in Schedulers |-> 0]
    /\ warned = [s \in Schedulers |-> 0]

\* take_snapshot_each: Scheduler.__init__ creates the first timer, start()
\* sets enabled and starts it
take_snapshot_each(s) ==
    /\ timer[s] = "none"
    /\ enabled' = [enabled EXCEPT ![s] = TRUE]
    /\ timer' = [timer EXCEPT ![s] = "waiting"]
    /\ UNCHANGED <<run_pc, invocations, warned>>

\* the period of a started timer that was not cancelled ends: its thread
\* calls run()
TimerFires(s) ==
    /\ timer[s] = "waiting"
    /\ timer' = [timer EXCEPT ![s] = "running"]
    /\ run_pc' = [run_pc EXCEPT ![s] = "func"]
    /\ UNCHANGED <<enabled, invocations, warned>>

\* run(), first half: func() is called; an Exception it raises is logged
run_func(s, ok) ==
    /\ run_pc[s] = "func"
    /\ invocations' = [invocations EXCEPT ![s] = @ + 1]
    /\ warned' = [warned EXCEPT ![s] = IF ok THEN @ ELSE @ + 1]
    /\ run_pc' = [run_pc EXCEPT ![s] = "lock"]
    /\ UNCHANGED <<enabled, timer>>

\* run(), second half, under the lock: if enabled a new Timer is created
\* and assigned; start() is not called on it. The thread of the old timer
\* ends.
run_rearm(s) ==
    /\ run_pc[s] = "lock"
    /\ timer' = [timer EXCEPT ![s] = IF enabled[s] THEN "created"
                                     ELSE "finished"]
    /\ run_pc' = [run_pc EXCEPT ![s] = "idle"]
    /\ UNCHANGED <<enabled, invocations, warned>>

\* stop(), under the lock: the current timer is cancelled (no effect on a
\* timer that has fired) and enabled is cleared
stop(s) ==
    /\ timer[s] # "none"
    /\ timer' = [timer EXCEPT ![s] = IF @ \in {"created", "waiting"}
                                     THEN "cancelled" ELSE @]
    /\ enabled' = [enabled EXCEPT ![s] = FALSE]
    /\ UNCHANGED <<run_pc, invocations, warned>>

----------------------------------------------------------------------------
\* The specifications.

\* the variables of the object layers below the hub, its callers and the spans
layers == <<rvars, arvars, stvars, fvars, dvars, scvars>>

allvars == <<vars, tvars, spvars, rvars, arvars, stvars, fvars, dvars, scvars>>

AllInit ==
    /\ Init /\ InitCalls /\ InitSpans /\ InitRegions
    /\ InitArchiveIdle /\ InitStorageIdle /\ InitFailures /\ InitDefault
    /\ InitSchedulers

\* the hub with its callers
TraceNext ==
    \/ enable /\ UNCHANGED <<tvars, spvars, layers>>
    \/ disable /\ UNCHANGED <<tvars, spvars, layers>>
    \/ \E c \in Calls, snap_ok \in BOOLEAN :
        TraceEnter(c, snap_ok) /\ UNCHANGED <<spvars, layers>>
    \/ \E c \in Calls, raised, pop_ok, snap_ok \in BOOLEAN :
        TraceExit(c, raised, pop_ok, snap_ok) /\ UNCHANGED <<spvars, layers>>
    \/ \E c \in Calls, snap_ok \in BOOLEAN :
        take_snapshot(c, snap_ok) /\ UNCHANGED <<spvars, layers>>
    \/ \E c \in Calls : CallSend(c) /\ UNCHANGED <<spvars, layers>>
    \/ \E o \in Objects : SendPut(o) /\ UNCHANGED <<tvars, spvars, layers>>
    \/ MediatorGet /\ UNCHANGED <<tvars, spvars, layers>>
    \/ MediatorEmpty /\ UNCHANGED <<tvars, spvars, layers>>
    \/ MediatorWait /\ UNCHANGED <<tvars, spvars, layers>>
    \/ MediatorSubmit /\ UNCHANGED <<tvars, spvars, layers>>
    \/ MediatorDrain /\ UNCHANGED <<tvars, spvars, layers>>
    \/ WorkerStart /\ UNCHANGED <<tvars, spvars, layers>>
    \/ WorkerFinish /\ UNCHANGED <<tvars, spvars, layers>>
    \/ ShutdownCall /\ UNCHANGED <<tvars, spvars, layers>>
    \/ ShutdownJoinMediator /\ UNCHANGED <<tvars, spvars, layers>>
    \/ ShutdownJoinQueue /\ UNCHANGED <<tvars, spvars, layers>>
    \/ ShutdownPool /\ UNCHANGED <<tvars, spvars, layers>>
    \/ ShutdownReturn /\ UNCHANGED <<tvars, spvars, layers>>

TraceSpec == AllInit /\ [][TraceNext]_allvars

\* the spans and their contexts
SpanNext ==
    \/ \E p, k \in Contexts, kind \in {"thread", "task"} :
        Spawn(p, k, kind) /\ UNCHANGED <<vars, tvars, layers>>
    \/ \E s \in Spans, k \in Contexts, t \in Clock :
        push(s, k, t) /\ UNCHANGED <<vars, tvars, layers>>
    \/ \E s \in Spans, k \in Contexts, t \in Clock :
        pop(s, k, t) /\ UNCHANGED <<vars, tvars, layers>>

SpanSpec == AllInit /\ [][SpanNext]_allvars

\* the hub alone, send_object being called directly
HubNext ==
    \/ enable /\ UNCHANGED <<tvars, spvars, layers>>
    \/ disable /\ UNCHANGED <<tvars, spvars, layers>>
    \/ \E o \in Objects : SendCheck(o) /\ UNCHANGED <<tvars, spvars, layers>>
    \/ \E o \in Objects : SendPut(o) /\ UNCHANGED <<tvars, spvars, layers>>
    \/ MediatorGet /\ UNCHANGED <<tvars, spvars, layers>>
    \/ MediatorEmpty /\ UNCHANGED <<tvars, spvars, layers>>
    \/ MediatorWait /\ UNCHANGED <<tvars, spvars, layers>>
    \/ MediatorSubmit /\ UNCHANGED <<tvars, spvars, layers>>
    \/ MediatorDrain /\ UNCHANGED <<tvars, spvars, layers>>
    \/ WorkerStart /\ UNCHANGED <<tvars, spvars, layers>>
    \/ WorkerFinish /\ UNCHANGED <<tvars, spvars, layers>>
    \/ InterpreterExit /\ UNCHANGED <<tvars, spvars, layers>>
    \/ ShutdownCall /\ UNCHANGED <<tvars, spvars, layers>>
    \/ ShutdownJoinMediator /\ UNCHANGED <<tvars, spvars, layers>>
    \/ ShutdownJoinQueue /\ UNCHANGED <<tvars, spvars, layers>>
    \/ ShutdownPool /\ UNCHANGED <<tvars, spvars, layers>>
    \/ ShutdownReturn /\ UNCHANGED <<tvars, spvars, layers>>

Spec == AllInit /\ [][HubNext]_vars

\* a Trace object through construction, entry and exit
RegionNext ==
    \/ \E t \in Traces, flag \in BOOLEAN :
        Trace(t, flag)
            /\ UNCHANGED <<vars, tvars, spvars, arvars, stvars, fvars, dvars, scvars>>
    \/ \E t \in Traces, snap_ok \in BOOLEAN :
        Trace__enter__(t, snap_ok)
            /\ UNCHANGED <<vars, tvars, spvars, arvars, stvars, fvars, dvars, scvars>>
    \/ \E t \in Traces, pop_ok, snap_ok \in BOOLEAN :
        Trace__exit__(t, pop_ok, snap_ok)
            /\ UNCHANGED <<vars, tvars, spvars, arvars, stvars, fvars, dvars, scvars>>

RegionSpec == AllInit /\ [][RegionNext]_allvars

\* containers written and loaded
ArchiveInit ==
    /\ Init /\ InitCalls /\ InitSpans /\ InitRegions
    /\ InitArchive /\ InitStorageIdle /\ InitFailures /\ InitDefault
    /\ InitSchedulers

ArchiveNext ==
    \/ WriteCodec /\ UNCHANGED <<vars, tvars, spvars, rvars, stvars, fvars, dvars, scvars>>
    \/ WriteWorker /\ UNCHANGED <<vars, tvars, spvars, rvars, stvars, fvars, dvars, scvars>>
    \/ \E marker \in Markers, declared \in DeclaredNames, data \in Payloads,
          bad \in CorruptEntries :
        Forge(marker, declared, data, bad)
            /\ UNCHANGED <<vars, tvars, spvars, rvars, stvars, fvars, dvars, scvars>>
    \/ \E cls \in Classes :
        LoadCodec(cls)
            /\ UNCHANGED <<vars, tvars, spvars, rvars, stvars, fvars, dvars, scvars>>
    \/ \E cls \in Classes :
        LoadBase(cls)
            /\ UNCHANGED <<vars, tvars, spvars, rvars, stvars, fvars, dvars, scvars>>

ArchiveSpec == ArchiveInit /\ [][ArchiveNext]_allvars

\* two workers opening the destinations of their objects
StorageInit ==
    /\ Init /\ InitCalls /\ InitSpans /\ InitRegions
    /\ InitArchiveIdle /\ InitStorage /\ InitFailures /\ InitDefault
    /\ InitSchedulers

StorageNext ==
    \/ \E w \in Workers :
        OpenStorage(w)
            /\ UNCHANGED <<vars, tvars, spvars, rvars, arvars, fvars, dvars, scvars>>

StorageSpec == StorageInit /\ [][StorageNext]_allvars

\* the hub alone, with what a failed submission found
FailNext ==
    \/ enable /\ UNCHANGED <<tvars, spvars, rvars, arvars, stvars, fvars, dvars, scvars>>
    \/ disable /\ UNCHANGED <<tvars, spvars, rvars, arvars, stvars, fvars, dvars, scvars>>
    \/ \E o \in Objects :
        SendCheck(o)
            /\ UNCHANGED <<tvars, spvars, rvars, arvars, stvars, fvars, dvars, scvars>>
    \/ \E o \in Objects :
        SendPut(o)
            /\ UNCHANGED <<tvars, spvars, rvars, arvars, stvars, fvars, dvars, scvars>>
    \/ MediatorGet
        /\ UNCHANGED <<tvars, spvars, rvars, arvars, stvars, fvars, dvars, scvars>>
    \/ MediatorEmpty
        /\ UNCHANGED <<tvars, spvars, rvars, arvars, stvars, fvars, dvars, scvars>>
    \/ MediatorWait
        /\ UNCHANGED <<tvars, spvars, rvars, arvars, stvars, fvars, dvars, scvars>>
    \/ MediatorSubmit /\ ObserveSubmit
        /\ UNCHANGED <<tvars, spvars, rvars, arvars, stvars, dvars, scvars>>
    \/ MediatorDrain
        /\ UNCHANGED <<tvars, spvars, rvars, arvars, stvars, fvars, dvars, scvars>>
    \/ WorkerStart
        /\ UNCHANGED <<tvars, spvars, rvars, arvars, stvars, fvars, dvars, scvars>>
    \/ WorkerFinish
        /\ UNCHANGED <<tvars, spvars, rvars, arvars, stvars, fvars, dvars, scvars>>
    \/ InterpreterExit
        /\ UNCHANGED <<tvars, spvars, rvars, arvars, stvars, fvars, dvars, scvars>>
    \/ ShutdownCall
        /\ UNCHANGED <<tvars, spvars, rvars, arvars, stvars, fvars, dvars, scvars>>
    \/ ShutdownJoinMediator
        /\ UNCHANGED <<tvars, spvars, rvars, arvars, stvars, fvars, dvars, scvars>>
    \/ ShutdownJoinQueue
        /\ UNCHANGED <<tvars, spvars, rvars, arvars, stvars, fvars, dvars, scvars>>
    \/ ShutdownPool
        /\ UNCHANGED <<tvars, spvars, rvars, arvars, stvars, fvars, dvars, scvars>>
    \/ ShutdownReturn
        /\ UNCHANGED <<tvars, spvars, rvars, arvars, stvars, fvars, dvars, scvars>>

FailSpec == AllInit /\ [][FailNext]_allvars

\* hubs being constructed and the default hub being replaced
DefaultNext ==
    \/ \E output_dir \in Paths, on \in BOOLEAN, limit \in Limits,
          workers \in WorkerCounts :
        Construct(output_dir, on, limit, workers)
            /\ UNCHANGED <<vars, tvars, spvars, rvars, arvars, stvars, fvars, scvars>>
    \/ \E output_dir \in Paths, limit \in Limits, workers \in WorkerCounts :
        ConfigureShutdown(output_dir, limit, workers)
            /\ UNCHANGED <<vars, tvars, spvars, rvars, arvars, stvars, fvars, scvars>>
    \/ ConfigureConstruct
        /\ UNCHANGED <<vars, tvars, spvars, rvars, arvars, stvars, fvars, scvars>>

DefaultSpec == AllInit /\ [][DefaultNext]_allvars

\* the periodic snapshots
SchedNext ==
    \/ \E s \in Schedulers :
        take_snapshot_each(s) /\ UNCHANGED <<vars, tvars, spvars, rvars, arvars, stvars, fvars, dvars>>
    \/ \E s \in Schedulers :
        TimerFires(s) /\ UNCHANGED <<vars, tvars, spvars, rvars, arvars, stvars, fvars, dvars>>
    \/ \E s \in Schedulers, ok \in BOOLEAN :
        run_func(s, ok) /\ UNCHANGED <<vars, tvars, spvars, rvars, arvars, stvars, fvars, dvars>>
    \/ \E s \in Schedulers :
        run_rearm(s) /\ UNCHANGED <<vars, tvars, spvars, rvars, arvars, stvars, fvars, dvars>>
    \/ \E s \in Schedulers :
        stop(s) /\ UNCHANGED <<vars, tvars, spvars, rvars, arvars, stvars, fvars, dvars>>

SchedSpec == AllInit /\ [][SchedNext]_allvars

\* the hub alone, constructed enabled, with its callers, its threads and a
\* thread calling shutdown(); the mediator thread is scheduled: it takes its
\* next step if that step stays possible
LiveInit == AllInit /\ ~event_disabled

LiveNext ==
    \/ \E o \in Objects : SendCheck(o) /\ UNCHANGED <<tvars, spvars, layers>>
    \/ \E o \in Objects : SendPut(o) /\ UNCHANGED <<tvars, spvars, layers>>
    \/ MediatorGet /\ UNCHANGED <<tvars, spvars, layers>>
    \/ MediatorEmpty /\ UNCHANGED <<tvars, spvars, layers>>
    \/ MediatorWait /\ UNCHANGED <<tvars, spvars, layers>>
    \/ MediatorSubmit /\ UNCHANGED <<tvars, spvars, layers>>
    \/ MediatorDrain /\ UNCHANGED <<tvars, spvars, layers>>
    \/ WorkerStart /\ UNCHANGED <<tvars, spvars, layers>>
    \/ WorkerFinish /\ UNCHANGED <<tvars, spvars, layers>>
    \/ InterpreterExit /\ UNCHANGED <<tvars, spvars, layers>>
    \/ ShutdownCall /\ UNCHANGED <<tvars, spvars, layers>>
    \/ ShutdownJoinMediator /\ UNCHANGED <<tvars, spvars, layers>>
    \/ ShutdownJoinQueue /\ UNCHANGED <<tvars, spvars, layers>>
    \/ ShutdownPool /\ UNCHANGED <<tvars, spvars, layers>>
    \/ ShutdownReturn /\ UNCHANGED <<tvars, spvars, layers>>

LiveSpec ==
    /\ LiveInit
    /\ [][LiveNext]_vars
    /\ WF_vars(Mediator)

----------------------------------------------------------------------------
\* Where an object is, and how it ended.

InSeq(o, q) == \E i \in 1..Len(q) : q[i] = o

\* the object is still on its way through the hub
InFlight(o) ==
    \/ send_pc[o] \in {"idle", "put"}
    \/ InSeq(o, queue)
    \/ mediator_obj = o
    \/ InSeq(o, work_queue)
    \/ o \in running

\* process_object(o) was started and has returned
Finished(o) == runs[o] >= 1 /\ o \notin running

----------------------------------------------------------------------------
\* C1: under every interleaving of callers, mediator and workers, the
\* persistence task process_object is started at most once for each object.
C1_PersistedAtMostOnce == \A o \in Objects : runs[o] <= 1

\* Two objects have each been through process_object once, one of them saved
\* while a third call is still in progress.
C1_Witness ==
    \E o, p \in Objects :
        /\ o # p
        /\ runs[o] = 1 /\ o \in saved
        /\ runs[p] = 1 /\ p \in running

\* C2: every object passed to send_object that has left the hub has exactly
\* one outcome: a persistence task was run for it, or a drop warning names
\* it; none is removed from the queue silently.
C2_NoSilentLoss ==
    \A o \in Objects :
        ~InFlight(o) => ((runs[o] >= 1) # (o \in log_dropped))

\* C3: send_object never raises into the caller: in every hub state and for
\* every queue fill level the call returns, and a call that did not admit its
\* object has logged the drop.
C3_SendNeverRaises ==
    \A o \in Objects :
        /\ send_pc[o] \in {"idle", "put", "returned"}
        /\ (send_pc[o] = "returned" /\ o \notin admitted) => o \in log_dropped

\* A call has returned after a drop on a full queue (the hub is disabled and
\* not closed, so the drop was not the closed one).
C3_Witness ==
    /\ ~event_closed
    /\ event_disabled
    /\ \E o \in Objects :
        send_pc[o] = "returned" /\ o \notin admitted /\ o \in log_dropped

\* C4: send_object is non-blocking: a call that has passed the closed check
\* can always take its next step, whatever the mediator and the workers do,
\* and on a full queue that step drops the object and leaves the queue as is.
C4_SendNonBlocking ==
    /\ [](\A o \in Objects : send_pc[o] = "put" => ENABLED SendPut(o))
    /\ [][\A o \in Objects :
            (send_pc[o] = "put" /\ send_pc'[o] # "put"
                /\ Len(queue) = max_size)
            => (send_pc'[o] = "returned" /\ o \in log_dropped'
                  /\ queue' = queue)]_vars

\* A call faces a full queue after the mediator has finished: no slot will
\* ever be freed.
C4_Witness ==
    /\ mediator_pc = "done"
    /\ Len(queue) = max_size
    /\ \E o \in Objects : send_pc[o] = "put"

\* C5: with admission limit K = max_size, when N > K objects have been
\* submitted before any worker completed (the hub not closed), exactly K were
\* accepted and exactly N - K were dropped with a log line.
C5_ExactlyKAccepted ==
    (/\ NumObjects > max_size
     /\ \A o \in Objects : send_pc[o] = "returned"
     /\ completed = 0
     /\ ~event_closed)
    => (/\ Cardinality(admitted) = max_size
        /\ Cardinality(log_dropped) = NumObjects - max_size)

\* C6: closed is terminal: no step clears event_closed once it is set, and
\* is_working() stays false after it.
C6_ClosedIsTerminal ==
    [][event_closed => (event_closed' /\ ~is_working')]_vars

\* The hub was closed by the mediator after a failed submission, no
\* shutdown() having been called, and its suppression flag is clear.
C6_Witness ==
    /\ event_closed
    /\ ~event_disabled
    /\ shutdown_pc = "idle"
    /\ shutdown_returned = 0

\* C7: once the closed flag is set no object is placed on the queue any more,
\* also when send_object runs concurrently with shutdown().
C7_NoAdmissionAfterClosed == [][event_closed => admitted' = admitted]_vars

\* C8: shutdown() drains before releasing: the worker pool is shut down only
\* after the mediator has exited, and when shutdown() has returned (no
\* submission having been refused by an exiting interpreter) the persistence
\* task of every object admitted before closed was set has run to completion.
C8_ShutdownDrains ==
    /\ pool_shutdown => mediator_pc = "done"
    /\ (shutdown_returned >= 1 /\ ~global_shutdown)
        => \A o \in admitted_open : Finished(o)

\* C9: shutdown() terminates: a call that is waiting is never in a state in
\* which no thread inside the hub's code can take a step.
C9_ShutdownNeverStuck ==
    shutdown_pc \in {"join_mediator", "join_queue", "pool_wait"}
        => ENABLED HubStep

\* C10: a second shutdown() after the first has returned does not block: the
\* queue has nothing unfinished when it reaches queue.join().
C10_SecondShutdownDoesNotBlock ==
    (shutdown_returned >= 1 /\ shutdown_pc = "join_queue")
        => unfinished_tasks = 0


----------------------------------------------------------------------------
\* C11: a traced region entered while the hub is disabled or closed is a
\* no-op: its body runs and no error comes from trace() itself, no Snapshot
\* is captured, no span is pushed or popped, and nothing is passed to
\* send_object.
C11_NotWorkingTraceIsNoOp ==
    \A c \in Calls :
        (call_kind[c] = "trace" /\ ~entry_working[c]) =>
            /\ body_ran[c]
            /\ call_exc[c] \in {"none", "body"}
            /\ captured[c] = 0
            /\ ~span_finish[c]
            /\ sends(c) = 0

C13_OnlyTheFlag ==
    /\ [](~event_disabled => ~ENABLED (enable /\ vars' # vars))
    /\ [](event_disabled => ~ENABLED (disable /\ vars' # vars))
    /\ [][event_disabled' # event_disabled =>
            UNCHANGED <<event_closed, qvars, mvars, pvars, ovars, svars,
                        log_dropped, send_pc, avars>>]_vars

\* The hub is disabled while it is closed, a shutdown() is waiting and a
\* Trace that a region sent is in the hands of a worker.
C13_Witness ==
    \E c \in Calls :
        /\ event_disabled
        /\ entry_working[c]
        /\ obj_of[c] \in running
        /\ event_closed
        /\ shutdown_pc # "idle"


\* C14 as stated: a take_snapshot() that has returned captured no Snapshot
\* and called send_object zero times if the hub was not working, and captured
\* exactly one Snapshot and called send_object exactly once if it was.
C14_SnapshotOnlyWhenWorking ==
    \A c \in Calls :
        (call_kind[c] = "snapshot" /\ CallReturned(c)) =>
            IF entry_working[c]
            THEN captured[c] = 1 /\ sends(c) = 1
            ELSE captured[c] = 0 /\ sends(c) = 0

\* C14, amended: on a hub that is not working take_snapshot() captures
\* nothing, sends nothing and raises nothing; on a working hub it either
\* captures one Snapshot and calls send_object once with it, or the inspector
\* fails, its exception reaches the caller, and nothing is captured or sent.
C14_SnapshotUnlessInspectorFails ==
    \A c \in Calls :
        (call_kind[c] = "snapshot" /\ CallReturned(c)) =>
            IF ~entry_working[c]
            THEN captured[c] = 0 /\ sends(c) = 0 /\ call_exc[c] = "none"
            ELSE IF call_exc[c] = "inspector"
            THEN captured[c] = 0 /\ sends(c) = 0
            ELSE captured[c] = 1 /\ sends(c) = 1 /\ call_exc[c] = "none"

\* A take_snapshot() on a working hub captured its Snapshot and the Snapshot
\* has been saved.
C14_Witness ==
    \E c \in Calls :
        /\ call_kind[c] = "snapshot"
        /\ entry_working[c]
        /\ captured[c] = 1
        /\ obj_of[c] \in saved

\* C15: a region whose body was entered has, once trace() is left, had its
\* span popped before its Trace was handed to send_object, the Trace was
\* handed over exactly once, and if the body raised, the body's exception is
\* the one that reaches the caller.
C15_EveryExitCleansUp ==
    \A c \in Calls :
        (call_kind[c] = "trace" /\ body_ran[c]) =>
            /\ sends(c) = 1 => span_finish[c]
            /\ CallReturned(c) =>
                /\ sends(c) = 1
                /\ body_raised[c] => call_exc[c] = "body"

\* C16: when the body raised, the exception that leaves the region is never
\* one raised by the exit cleanup (span.pop() or the capture of
\* new_snapshot).
C16_CleanupKeepsBodyException ==
    \A c \in Calls :
        (call_kind[c] = "trace" /\ body_raised[c]) =>
            call_exc[c] \notin {"StackError", "inspector"}


----------------------------------------------------------------------------
\* the spans that have span s in their children
ParentsOf(s) == {p \in Spans : InSeq(s, children[p])}

\* every pop() so far found its span on top of the stack
NoFailedPop == \A s \in Spans : pop_result[s] \in {"none", "ok"}

\* all pushes and pops so far were made in LIFO order by one context
LifoOnOneContext ==
    /\ NoFailedPop
    /\ \A s, u \in Spans :
        (ctx_of[s] # "none" /\ ctx_of[u] # "none") => ctx_of[s] = ctx_of[u]

\* C17: a pop() that found the stack of its context empty (a context that
\* never pushed included) or found another span on top of it has failed with
\* the stack error (the RuntimeError that Span.pop raises for both cases).
C17_BadPopRaisesStackError ==
    \A s \in Spans :
        (finish[s] # 0 /\ pop_top[s] # s) => pop_result[s] = "RuntimeError"

\* C18: after pushes and pops in LIFO order on one context the spans form a
\* tree: a span pushed on top of another span is in the children of exactly
\* that span, a span pushed on an empty stack is in no children list, no span
\* is in its own children, no span is twice in a list, and each list is in
\* the order of the start times.
C18_SpansFormATree ==
    LifoOnOneContext =>
        /\ \A s \in Spans :
            /\ s \notin ParentsOf(s)
            /\ ParentsOf(s) = IF start[s] = 0 \/ parent_own[s] = 0 THEN {}
                              ELSE {parent_own[s]}
        /\ \A p \in Spans : \A i, j \in 1..Len(children[p]) :
            i < j => /\ children[p][i] # children[p][j]
                     /\ start[children[p][i]] <= start[children[p][j]]

\* All spans have been pushed and popped in LIFO order on one context, two
\* of them as children of the same span.
C18_Witness ==
    /\ LifoOnOneContext
    /\ \A s \in Spans : pop_result[s] = "ok"
    /\ \E p \in Spans : Len(children[p]) = 2

\* C19: with a clock that never goes back, for a region nested in another
\* and both exited in order: the inner span is in the outer span's children
\* (and is the whole list if nothing else was nested there), start(outer) <=
\* start(inner) <= finish(inner) <= finish(outer) and elapsed(outer) >=
\* elapsed(inner) >= 0; a span that was never started has elapsed 0.
C19_NestedSpanTimes ==
    /\ \A s \in Spans : start[s] = 0 => elapsed_ns(s) = 0
    /\ LifoOnOneContext =>
        \A o, i \in Spans :
            (parent_own[i] = o /\ pop_result[o] = "ok" /\ pop_result[i] = "ok")
            => /\ InSeq(i, children[o])
               /\ (\A u \in Spans : parent_own[u] = o => u = i)
                      => children[o] = <<i>>
               /\ start[o] <= start[i]
               /\ start[i] <= finish[i]
               /\ finish[i] <= finish[o]
               /\ elapsed_ns(o) >= elapsed_ns(i)
               /\ elapsed_ns(i) >= 0

\* Two nested regions have been exited in order, the clock having advanced
\* inside the inner one and again after it.
C19_Witness ==
    /\ LifoOnOneContext
    /\ \E o, i \in Spans :
        /\ parent_own[i] = o
        /\ pop_result[o] = "ok" /\ pop_result[i] = "ok"
        /\ children[o] = <<i>>
        /\ elapsed_ns(o) > elapsed_ns(i)
        /\ elapsed_ns(i) > 0

\* C20: the stacks of two contexts are isolated: no span is a child of a
\* span pushed by another context, and as long as every context pops only
\* the innermost open span of its own, no pop() fails.
C20_ContextsIsolated ==
    /\ \A p, s \in Spans : InSeq(s, children[p]) => ctx_of[p] = ctx_of[s]
    /\ (\A u \in Spans : finish[u] # 0 => pop_in_order[u]) => NoFailedPop

----------------------------------------------------------------------------
\* C21: Trace.is_completed() holds if and only if the root span's finish is
\* set, in every state a Trace can reach: before entry, inside the region,
\* after a normal exit, and after an exit in which pop or a capture failed.
C21_CompletedIffFinished ==
    \A t \in Traces :
        trace_obj[t].pc # "none"
            => (is_completed(t) <=> trace_obj[t].finish # 0)

\* C22: old_snapshot and new_snapshot are populated only if the Trace was
\* created with the snapshot flag set: with the flag false both fields stay
\* empty through entry and exit, and the inspector is not called.
C22_SnapshotsOnlyWithFlag ==
    \A t \in Traces :
        (trace_obj[t].pc # "none" /\ ~trace_obj[t].with_memory_snapshot)
            => /\ trace_obj[t].old_snapshot = 0
               /\ trace_obj[t].new_snapshot = 0
               /\ trace_obj[t].inspector_calls = 0

\* C23: within one Trace the capture order is fixed: old_snapshot is captured
\* before start is recorded, new_snapshot after finish is recorded, so
\* old_snapshot is captured strictly before new_snapshot, and new_snapshot is
\* never set while old_snapshot is empty.
C23_CaptureOrder ==
    \A t \in Traces :
        LET r == trace_obj[t] IN
        /\ r.start # 0 => (r.old_snapshot # 0 /\ r.old_snapshot < r.start)
        /\ r.finish # 0 => (r.start # 0 /\ r.start < r.finish)
        /\ r.new_snapshot # 0
            => /\ r.finish # 0 /\ r.finish < r.new_snapshot
               /\ r.old_snapshot # 0 /\ r.old_snapshot < r.new_snapshot

\* Two regions were open at the same time and both have exited with both
\* captures made, the second one entered after the first and left before it.
C23_Witness ==
    /\ trace_obj[1].pc = "exited" /\ trace_obj[2].pc = "exited"
    /\ trace_obj[1].start < trace_obj[2].old_snapshot
    /\ trace_obj[2].new_snapshot < trace_obj[1].finish

----------------------------------------------------------------------------
\* the classes a declared name names, as the codec or as Base writes it
NamedBy(declared) ==
    {c \in Classes : get_class_fqn(c) = declared \/ class_name(c) = declared}

\* the container is intact and its version marker is a number
Readable(f) == f.present /\ f.corrupt = "none" /\ f.version.digits

\* the last load was done by this loader
Loaded(loader) == result.loader = loader

\* C24: loading an intact archive whose version marker is a number other than
\* the supported version always fails with the unsupported-version error of
\* the loader and never returns an object, whatever the declared class name
\* and the payload are; the payload is not read.
C24_OtherVersionRejected ==
    (result.loader # "none" /\ Readable(file)
        /\ file.version.number # VERSION)
    => /\ result.exc = IF Loaded("codec")
                       THEN "ArchiveUnsupportedVersionError"
                       ELSE "UnsupportedVersionError"
       /\ result.obj = NoObject
       /\ ~result.payload_read

\* The codec has rejected the version of a container whose declared class is
\* the expected one and whose payload is the compressed pickle of an object
\* of that class: nothing but the version is wrong with it.
C24_Witness ==
    /\ Loaded("codec") /\ Readable(file)
    /\ file.version.number # VERSION
    /\ file.metadata.class_ = get_class_fqn(result.cls)
    /\ file.data = zstd_write(pickle_dump(arch_obj))
    /\ result.cls = arch_obj.class
    /\ result.exc = "ArchiveUnsupportedVersionError"

C27_WorkerWritesCodecContainers ==
    /\ (file.present /\ file = save_to(arch_obj))
        => /\ file.metadata = save_object_to(arch_obj).metadata
           /\ file.data.format = save_object_to(arch_obj).data.format
    /\ (Loaded("codec") /\ file = save_to(arch_obj)
            /\ result.cls = arch_obj.class)
        => (result.exc = "none" /\ result.obj = arch_obj)

----------------------------------------------------------------------------
\* C28: destination names are collision-free: for two different objects of a
\* hub (different oid, or different kind Trace/Snapshot) get_object_storage
\* derives different file names, so two workers never have the same
\* destination open for writing.
C28_DestinationsDiffer ==
    \A v, w \in Workers :
        (/\ v # w
         /\ dest[v] # NotOpened /\ dest[v].exc = "none"
         /\ dest[w] # NotOpened /\ dest[w].exc = "none"
         /\ (msg[v].oid # msg[w].oid \/ msg[v].kind # msg[w].kind))
        => dest[v].name # dest[w].name

\* Both workers have opened the destinations of two Traces whose trace ids
\* are different texts with the same file-system-safe form and whose oids
\* differ.
C28_Witness ==
    /\ msg[1].kind = "Trace" /\ msg[2].kind = "Trace"
    /\ msg[1].trace_id # msg[2].trace_id
    /\ get_filesystem_safe_name(msg[1].trace_id)
        = get_filesystem_safe_name(msg[2].trace_id)
    /\ msg[1].oid # msg[2].oid
    /\ dest[1].name # <<>> /\ dest[2].name # <<>>

----------------------------------------------------------------------------
\* C29: a failure inside a persistence task is caught and logged and does not
\* leave the worker: every task that has ended has either saved its object or
\* logged the failure with the object's name, the task has marked the object
\* done exactly once whether it succeeded or failed, and a failure changes
\* nothing of the pool, so later objects are still processed.
C29_FailedSaveIsContained ==
    /\ [](\A o \in Objects :
            Finished(o) => ((o \in saved) # (name(o) \in log_error)))
    /\ [](completed = Cardinality({o \in Objects : Finished(o)}))
    /\ [][\A o \in Objects :
            (o \in running /\ o \notin running')
            => /\ unfinished_tasks' = unfinished_tasks - 1
               /\ completed' = completed + 1
               /\ <<work_queue, pool_shutdown, event_closed, queue>>'
                    = <<work_queue, pool_shutdown, event_closed, queue>>]_vars
    /\ []((work_queue # <<>> /\ Cardinality(running) < num_workers)
            => ENABLED WorkerStart)

\* A task has failed and left its worker, the failure is logged, the object
\* is marked done, and a task submitted for another object is waiting for a
\* free worker, which there is.
C29_Witness ==
    \E o, p \in Objects :
        /\ Finished(o) /\ name(o) \in log_error /\ o \notin saved
        /\ InSeq(p, work_queue)
        /\ Cardinality(running) < num_workers
        /\ completed = 1

----------------------------------------------------------------------------
\* C30: if the mediator's submission of an object to the worker pool fails,
\* the hub becomes closed and the object is logged and marked done by the
\* mediator without a task being run for it; every object that was in the
\* queue at that moment is likewise taken out, logged and marked done before
\* the mediator ends, which it is always free to do, so that a later
\* shutdown() does not wait on any of them.
C30_FailedSubmitClosesAndEmpties ==
    /\ [][(mediator_pc = "submit" /\ mediator_pc' # "submit" /\ SubmitRaises)
            => /\ event_closed'
               /\ name(mediator_obj) \in log_dropped'
               /\ unfinished_tasks' = unfinished_tasks - 1
               /\ <<work_queue, runs, queue>>' = <<work_queue, runs, queue>>
         ]_allvars
    /\ [](\A o \in submit_failed :
            event_closed /\ name(o) \in log_dropped /\ runs[o] = 0)
    /\ []((submit_failed # {} /\ mediator_pc # "done") => ENABLED Mediator)
    /\ [](mediator_pc \in {"drain", "done"}
            => \A o \in queue_at_failure :
                /\ name(o) \in log_dropped
                /\ ~InSeq(o, queue)
                /\ runs[o] = 0)
    /\ []((mediator_pc = "done" /\ submit_failed # {})
            => unfinished_tasks
                = Len(queue) + Len(work_queue) + Cardinality(running))

\* A submission failed while two more objects were in the queue; the mediator
\* has ended and a shutdown() called afterwards has returned.
C30_Witness ==
    /\ submit_failed # {}
    /\ Cardinality(queue_at_failure) = 2
    /\ mediator_pc = "done"
    /\ shutdown_returned >= 1

----------------------------------------------------------------------------
\* C33: a function wrapped with traced() is the body of a region of the
\* default hub: it is called exactly once per call of the wrapper and its
\* return value or exception reaches the caller unchanged, whether the hub is
\* enabled, disabled or closed.
C33_TracedCallsThrough ==
    \A c \in Calls :
        (call_kind[c] = "trace" /\ CallReturned(c))
        => /\ body_ran[c]
           /\ call_exc[c] = IF body_raised[c] THEN "body" ELSE "none"

\* C38: every Trace that a region hands to send_object is completed: its root
\* span was started (Trace.__enter__ went through push(), after which the
\* body is entered) and finished, also when entering the region failed or
\* the body raised.
C38_SentTraceIsCompleted ==
    \A c \in Calls :
        (call_kind[c] = "trace" /\ obj_of[c] # 0)
        => (body_ran[c] /\ span_finish[c])

----------------------------------------------------------------------------
\* the decoded payload of a container, if its payload decodes
Decoded(f) == pickle_load(zstd_read(f.data).data)

Decodes(f) == zstd_read(f.data).exc = "none" /\ Decoded(f).exc = "none"

\* C34: when an archive has several defects at once, load_object_from
\* reports the one of the earliest check in the fixed order: corrupt
\* container, then version, then declared class name, then runtime type of
\* the decoded payload; the payload is read only after the three earlier
\* checks passed, and an object is returned only if all four pass.
C34_ChecksInOrder ==
    (Loaded("codec") /\ file.version.digits)
    => LET bad == file.corrupt # "none"
           ver == file.version.number # VERSION
           cls == get_class_fqn(result.cls) # file.metadata.class_
           obj == Decodes(file) /\ ~isinstance(Decoded(file).obj, result.cls)
       IN
       /\ bad => result.exc = "ArchiveBadFileError"
       /\ (~bad /\ ver) => result.exc = "ArchiveUnsupportedVersionError"
       /\ (~bad /\ ~ver /\ cls) => result.exc = "ArchiveClassMismatchError"
       /\ (~bad /\ ~ver /\ ~cls /\ obj)
            => result.exc = "ArchiveWrongObjectError"
       /\ result.payload_read <=> (~bad /\ ~ver /\ ~cls)
       /\ result.obj # NoObject
            => (~bad /\ ~ver /\ ~cls /\ ~obj /\ result.exc = "none"
                  /\ isinstance(result.obj, result.cls))

\* The codec has rejected the version of a container in which the declared
\* class is not the expected one and the payload holds an object of another
\* class as well: three defects, the earliest one reported.
C34_Witness ==
    /\ Loaded("codec") /\ Readable(file)
    /\ file.version.number # VERSION
    /\ get_class_fqn(result.cls) # file.metadata.class_
    /\ Decodes(file) /\ ~isinstance(Decoded(file).obj, result.cls)
    /\ result.exc = "ArchiveUnsupportedVersionError"

----------------------------------------------------------------------------
\* C35: the number of objects waiting in the hub's queue never exceeds
\* max_size, for any number of concurrent send_object callers.
C35_QueueBounded == Len(queue) <= max_size

\* The queue is full while another call of send_object has passed the closed
\* check and is about to put its object.
C35_Witness ==
    /\ Len(queue) = max_size
    /\ \E o \in Objects : send_pc[o] = "put"

\* nothing is on its way: no call of send_object is between its check and its
\* put, the mediator has ended, no task is submitted or running
Quiescent ==
    /\ \A o \in Objects : send_pc[o] # "put"
    /\ mediator_pc = "done"
    /\ work_queue = <<>>
    /\ running = {}

\* C36: queue accounting is balanced: every object successfully enqueued is
\* marked done exactly once (by the worker task, by the mediator after a
\* failed submission, or by the mediator's drain), so the unfinished count
\* never goes negative and is zero once nothing is on its way any more.
C36_AccountingBalanced ==
    /\ unfinished_tasks >= 0
    /\ unfinished_tasks
        = Len(queue) + (IF mediator_obj = 0 THEN 0 ELSE 1) + Len(work_queue)
            + Cardinality(running)
    /\ Quiescent => unfinished_tasks = 0

----------------------------------------------------------------------------
\* the mediator has dequeued the object and passed it to worker_pool.submit
Submitted(o) ==
    \/ InSeq(o, work_queue)
    \/ runs[o] >= 1
    \/ (o \in admitted /\ ~InSeq(o, queue) /\ mediator_obj # o
            /\ name(o) \in log_dropped)

\* C37: the mediator thread ends only when the hub is closed and its last
\* get() found the queue empty; while the hub is not closed the mediator
\* keeps running and, its thread being scheduled, every object in the queue
\* is eventually dequeued and passed to the worker pool.
C37_MediatorEndsOnlyClosedAndEmpty ==
    /\ [][(mediator_pc # "wait" /\ mediator_pc' = "wait") => queue = <<>>]_vars
    /\ [][(mediator_pc # "drain" /\ mediator_pc' = "drain")
            => (mediator_pc = "wait" /\ event_closed)]_vars
    /\ [](~event_closed => mediator_pc \notin {"drain", "done"})
    /\ \A o \in Objects :
        [](InSeq(o, queue) => <>(Submitted(o) \/ event_closed))

\* The mediator has gone round its loop on an open hub and has then ended on
\* a closed one, after two objects were dequeued and submitted.
C37_Witness ==
    /\ mediator_pc = "done"
    /\ event_closed
    /\ Cardinality({o \in Objects : runs[o] >= 1 \/ InSeq(o, work_queue)}) = 2

----------------------------------------------------------------------------
\* C39: Span.pop() records finish and removes the top element of the
\* context's stack before it checks that the element is the span being
\* popped: after a pop that fails on a mismatch the stack is one element
\* shorter than before, the removed span is a different span that was never
\* popped by its own owner, and the popping span has finish set.
C39_FailedPopRemovesUnpopped ==
    [][\A s \in Spans :
        (pop_result[s] = "none" /\ pop_result'[s] = "RuntimeError"
            /\ pop_top'[s] # 0)
        => /\ finish'[s] # 0
           /\ pop_top'[s] # s
           /\ \E l \in Contexts :
                /\ lists[l] # <<>>
                /\ Last(lists[l]) = pop_top'[s]
                /\ lists'[l] = Front(lists[l])
           /\ pop_result[pop_top'[s]] = "none"]_allvars

\* C39 as it holds: the removed span is a different span whose own pop() has
\* not removed it: it either was not called yet or had itself failed.
C39_FailedPopRemovesTop ==
    [][\A s \in Spans :
        (pop_result[s] = "none" /\ pop_result'[s] = "RuntimeError"
            /\ pop_top'[s] # 0)
        => /\ finish'[s] # 0
           /\ pop_top'[s] # s
           /\ \E l \in Contexts :
                /\ lists[l] # <<>>
                /\ Last(lists[l]) = pop_top'[s]
                /\ lists'[l] = Front(lists[l])
           /\ pop_result[pop_top'[s]] # "ok"]_allvars

\* Two spans were pushed one inside the other; the outer one was popped
\* first, which failed and removed the inner one, and the pop of the inner
\* one then failed and removed the outer one, whose pop had been called.
C39_Witness ==
    \E s, u \in Spans :
        /\ s # u
        /\ pop_result[s] = "RuntimeError" /\ pop_top[s] = u
        /\ pop_result[u] = "RuntimeError" /\ pop_top[u] = s
        /\ finish[s] # 0 /\ finish[u] # 0

----------------------------------------------------------------------------
\* C31: hub construction fails when the output directory does not exist or
\* is not writable, and a failed construction leaves nothing running: no
\* mediator thread has been started and no worker pool has been created.
C31_ConstructionNeedsWritableDir ==
    \A output_dir \in Paths, on \in BOOLEAN, limit \in Limits,
       workers \in WorkerCounts :
        built = ThreadingHub(output_dir, on, limit, workers)
        => /\ output_dir # "writable_dir" => built.exc # "none"
           /\ built.exc # "none"
                => /\ built.hub.mediator = "none"
                   /\ built.hub.worker_pool = "none"

\* C32: configure_default_hub replaces the default hub: when it returns the
\* previous default hub has been shut down and the default hub is a new,
\* enabled, not closed hub with the given output directory, admission limit
\* and worker count; when the call has ended, however it ended, the default
\* hub is not a closed hub.
C32_DefaultHubReplaced ==
    /\ cfg_pc = "returned"
        => /\ previous.state = "closed"
           /\ previous.mediator = "joined"
           /\ Hub.state = "open" /\ Hub.enabled
           /\ Hub.mediator = "started"
           /\ Hub.output_dir = cfg_args.output_dir
           /\ Hub.max_size = cfg_args.in_progress_limit
           /\ Hub.num_workers = cfg_args.num_workers
    /\ cfg_pc \in {"returned", "raised"} => Hub.state = "open"

\* C40: after start() the scheduled function is invoked again after each
\* period until stop() is called: whenever a run has finished while the
\* scheduler is enabled, a timer that will trigger the next run is armed and
\* started, also when the function raised.
C40_SchedulerRepeats ==
    \A s \in Schedulers :
        (enabled[s] /\ run_pc[s] = "idle" /\ invocations[s] >= 1)
        => timer[s] = "waiting"

====
